---------------------------- MODULE Spec2Model ----------------------------
(***************************************************************************)
(* The VHCI <-> stpbt bridge of kindle-ble-hid (src/src/vhci_stpbt_bridge.c).*)
(*                                                                         *)
(* The bridge is one single-threaded process.  Its state is the two        *)
(* accumulators vhci_buf/stpbt_buf (the bytes [0, len) of the C arrays),   *)
(* the two file descriptors, the running flag, ret, and the position of    *)
(* main (pc).  The two endpoints are modelled by the bytes their peers     *)
(* have queued for reading (vhci_rx, stpbt_rx) and by the log of write()    *)
(* calls the bridge has made on them (vhci_wr, stpbt_wr).  vhci_in,        *)
(* stpbt_in, vhci_ext and stpbt_ext are history variables: every byte read *)
(* so far, and every frame the extraction loop has taken off the front of  *)
(* an accumulator.                                                         *)
(*                                                                         *)
(* syscall records the system call of the step just taken and the result   *)
(* main saw (the sign of n, and errno).                                    *)
(*                                                                         *)
(* get_packet_len, a pure function, is also exercised on its own under     *)
(* SpecResolver, on buffers whose length bytes range over ByteSamples.     *)
(* SpecFull adds behaviours that start in the loop with an accumulator two *)
(* bytes short of BUF_SIZE, and SpecLive is Spec with main always taking   *)
(* its next step.                                                          *)
(*                                                                         *)
(* Three other programs of the repository are modelled by one record each, *)
(* whose fields are the program's variables: bridge_data and safe_write of *)
(* src/src/pty_stpbt_bridge.c (pty, under SpecPty), main and process_event *)
(* of src/src/bt_connect.c (bt, under SpecBt) and of src/src/ble_connect.c *)
(* (ble, under SpecBle).  Each specification runs one program and leaves   *)
(* the state of the others as it is at their start.                        *)
(***************************************************************************)
EXTENDS Integers, Sequences, FiniteSets, TLC

VARIABLES
    pc,          \* position of main()
    running,     \* static volatile int running
    ret,         \* int ret
    vhci_fd,     \* -1, or the descriptor of /dev/vhci
    stpbt_fd,    \* -1, or the descriptor of /dev/stpbt
    closed,      \* the close() calls made so far, in order
    rfds,        \* the descriptors select() reported and not yet handled
    vhci_buf,    \* vhci_buf[0 .. vhci_len)
    stpbt_buf,   \* stpbt_buf[0 .. stpbt_len)
    vhci_rx,     \* bytes queued on /dev/vhci for the bridge to read
    stpbt_rx,    \* bytes queued on /dev/stpbt for the bridge to read
    vhci_wr,     \* write() calls made on vhci_fd: <<[data, n]>>
    stpbt_wr,    \* write() calls made on stpbt_fd: <<[data, n]>>
    vhci_in,     \* history: all bytes read from vhci_fd
    stpbt_in,    \* history: all bytes read from stpbt_fd
    vhci_ext,    \* history: frames extracted from vhci_buf
    stpbt_ext,   \* history: frames extracted from stpbt_buf
    syscall,     \* the system call of the step just taken, and its result
    vhci_sent,   \* history: frames queued on /dev/vhci by the host stack
    stpbt_sent,  \* history: frames queued on /dev/stpbt by the controller
    rbuf,        \* SpecResolver: the buffer handed to get_packet_len
    rres,        \* SpecResolver: its result, or NoResult before the call
    pty,         \* pty_stpbt_bridge.c: the state of bridge_data
    bt,          \* bt_connect.c: the state of main
    ble          \* ble_connect.c: the state of main

vars == <<pc, running, ret, vhci_fd, stpbt_fd, closed, rfds, vhci_buf, stpbt_buf,
          vhci_rx, stpbt_rx, vhci_wr, stpbt_wr, vhci_in, stpbt_in, vhci_ext,
          stpbt_ext, syscall, vhci_sent, stpbt_sent, rbuf, rres, pty, bt, ble>>

---------------------------------------------------------------------------
(* Program constants *)

BUF_SIZE == 4096

HCI_COMMAND_PKT == 1

HCI_ACLDATA_PKT == 2

HCI_SCODATA_PKT == 3

HCI_EVENT_PKT == 4

HCI_VHCI_PKT == 255

VHCI_FD == 3

STPBT_FD == 4

\* pty_stpbt_bridge.c: #define BUFFER_SIZE 4096
BUFFER_SIZE == 4096

\* bt_connect.c and ble_connect.c: HCI commands (OGF | OCF) and events
HCI_OP_CREATE_CONN == 1029

HCI_OP_DISCONNECT == 1030

HCI_OP_REMOTE_NAME_REQ == 1049

HCI_EV_CONN_COMPLETE == 3

HCI_EV_DISCONN_COMPLETE == 5

HCI_EV_REMOTE_NAME == 7

HCI_EV_ENCRYPT_CHANGE == 8

HCI_EV_CMD_COMPLETE == 14

HCI_EV_CMD_STATUS == 15

\* bt_connect.c: int name_timeout = 5000; int timeout = 30000; and the
\* timeout of each poll, subtracted when it expires
BtNameTimeout == 5000

BtTimeout == 30000

BtPollTimeout == 1000

\* ble_connect.c: the LE commands and events, int timeout_counter = 30000;
\* the timeout of each poll of the wait loop, timeout_counter = 5000; and
\* the timeout of each poll of the wait for the disconnection
HCI_OP_LE_SET_SCAN_ENABLE == 8204

HCI_OP_LE_CREATE_CONN == 8205

HCI_OP_LE_CREATE_CONN_CANCEL == 8206

HCI_EV_LE_META == 62

HCI_EV_LE_CONN_COMPLETE == 1

HCI_EV_LE_ADVERTISING_REPORT == 2

BleTimeout == 30000

BlePollTimeout == 1000

BleDiscTimeout == 5000

BleDiscPollTimeout == 100

(* Bounds of the model *)

\* total number of bytes the two peers queue, over both directions
MaxBytes == 6

\* largest payload length of the frames the peers send
MaxParam == 1

\* number of write() calls that come back short or failed in one run
MaxFaults == 1

\* length of the longest buffer handed to get_packet_len under SpecResolver
MaxHdr == 6

\* bytes still queued behind an accumulator two bytes short of BUF_SIZE
MaxPending == 3

\* the bytes queued on each side of the PTY bridge
MaxStream == 3

---------------------------------------------------------------------------
(* Helpers *)

Min(a, b) == IF a < b THEN a ELSE b

Drop(s, n) == SubSeq(s, n + 1, Len(s))

Take(s, n) == SubSeq(s, 1, n)

RECURSIVE Flatten(_)
Flatten(ss) == IF ss = <<>> THEN <<>> ELSE Head(ss) \o Flatten(Tail(ss))

\* a | b on non-negative ints, bit by bit
RECURSIVE BitOr(_, _)
BitOr(a, b) ==
    IF a = 0 THEN b
    ELSE IF b = 0 THEN a
    ELSE 2 * BitOr(a \div 2, b \div 2) + (IF (a % 2 = 1) \/ (b % 2 = 1) THEN 1 ELSE 0)

\* x << 8 on an int holding an unsigned char (no overflow in 32 bits)
Shl8(x) == x * 256

---------------------------------------------------------------------------
(* get_packet_len: <<expected packet length, *is_vhci_internal>>.          *)
(* buf is buf[0 .. len): buf[i] of the C code is buf[i + 1] here.          *)

PktResult(l, internal) == [len |-> l, internal |-> internal]

\* case HCI_COMMAND_PKT: 1 (type) + 2 (opcode) + 1 (param_len) + param_len
CommandLen(buf) == IF Len(buf) < 4 THEN 0 ELSE 4 + buf[4]

\* mutant: data_len read big-endian
AclLen_BigEndian(buf) == IF Len(buf) < 5 THEN 0 ELSE 5 + BitOr(buf[5], Shl8(buf[4]))

\* case HCI_ACLDATA_PKT: 1 (type) + 2 (handle) + 2 (data_len) + data_len
AclLen(buf) == IF Len(buf) < 5 THEN 0 ELSE 5 + BitOr(buf[4], Shl8(buf[5]))

\* mutant: data_len taken from the last buffered byte
ScoLen_Trailing(buf) == IF Len(buf) < 4 THEN 0 ELSE 4 + buf[Len(buf)]

\* case HCI_SCODATA_PKT: 1 (type) + 2 (handle) + 1 (data_len) + data_len
ScoLen(buf) == IF Len(buf) < 4 THEN 0 ELSE 4 + buf[4]

\* mutant: the type byte not counted
EventLen_NoType(buf) == IF Len(buf) < 3 THEN 0 ELSE 2 + buf[3]

\* case HCI_EVENT_PKT: 1 (type) + 1 (event) + 1 (param_len) + param_len
EventLen(buf) == IF Len(buf) < 3 THEN 0 ELSE 3 + buf[3]

\* mutant: no check for the opcode byte
VhciLen_NoCheck(buf) == Len(buf)

\* mutant: a vendor packet taken to be its type and opcode bytes only
VhciLen_Header(buf) == IF Len(buf) < 2 THEN 0 ELSE 2

\* mutant: vendor bytes held in the buffer until more arrive
VhciLen_Hold(buf) == 0

\* case HCI_VHCI_PKT: "Vendor packets vary in size - consume what we have"
VhciLen(buf) == IF Len(buf) < 2 THEN 0 ELSE Len(buf)

\* mutant: an unknown type taken as "need more data"
UnknownLen_NeedMore(buf) == 0

\* default: "Unknown packet type"
UnknownLen(buf) == -1

get_packet_len(buf) ==
    IF Len(buf) < 1 THEN PktResult(0, FALSE)
    ELSE CASE buf[1] = HCI_COMMAND_PKT -> PktResult(CommandLen(buf), FALSE)
           [] buf[1] = HCI_ACLDATA_PKT -> PktResult(AclLen(buf), FALSE)
           [] buf[1] = HCI_SCODATA_PKT -> PktResult(ScoLen(buf), FALSE)
           [] buf[1] = HCI_EVENT_PKT -> PktResult(EventLen(buf), FALSE)
           [] buf[1] = HCI_VHCI_PKT -> PktResult(VhciLen(buf), TRUE)
           [] OTHER -> PktResult(UnknownLen(buf), FALSE)

---------------------------------------------------------------------------
(* The extraction loops of main: "Process complete packets".               *)

\* mutant: the length reduced without the memmove
RemovePacket_NoMove(buf, pkt_len) == Take(buf, Len(buf) - pkt_len)

\* "Remove processed packet from buffer": memmove and len -= pkt_len
RemovePacket(buf, pkt_len) == Drop(buf, pkt_len)

\* mutant: every frame written
ForwardVhci_All(internal) == TRUE

\* host -> controller: the branch on is_vhci_internal decides the write
ForwardVhci(internal) == ~internal

\* mutant: the host-side branch copied to this direction
ForwardStpbt_Filter(internal) == ~internal

\* controller -> host: the write is unconditional
ForwardStpbt(internal) == TRUE

\* what the fault.at-th write() of one handler run returns for a request of
\* len bytes: len, or (a short write) len - 1, or (a failure) -1
WriteReturn(fault, len) ==
    IF fault.at # 1 THEN len
    ELSE IF fault.kind = "short" THEN len - 1 ELSE -1

NextFault(fault) == [fault EXCEPT !.at = IF fault.at > 0 THEN fault.at - 1 ELSE 0]

NoFault == [at |-> 0, kind |-> "short"]

\* history record of one extracted frame: its bytes, *is_vhci_internal, the
\* stream offset of its first byte, whether it began in an earlier read, and
\* the pass of the while loop that extracted it (1 for the first of a read)
Extracted(pkt, internal, off, held, pass) ==
    [data |-> pkt, internal |-> internal, off |-> off, carried |-> held > 0,
     pass |-> pass]

\* one write(fd, buf, pkt_len) and its return value n; off as in Extracted
WriteCall(pkt, n, off) == [data |-> pkt, n |-> n, off |-> off]

\* mutant: len = n, the read landing at buf[0]
AppendRead_Reset(buf, got) == got

\* read(fd, buf + len, BUF_SIZE - len); len += n
AppendRead(buf, got) == buf \o got

Processed(buf, ext, wr) == [buf |-> buf, ext |-> ext, wr |-> wr]

\* mutant: if (len > 0) in place of while (len > 0): one packet per read
LoopAgain_Once(len, pass) == pass = 1 /\ len > 0

\* while (vhci_len > 0), while (stpbt_len > 0): the test before each pass
LoopAgain(len, pass) == len > 0

\* while (vhci_len > 0) { ... }: the accumulator left, the frames extracted,
\* and the write() calls made on stpbt_fd.  off is the stream offset of buf[0],
\* held the number of bytes of buf that earlier reads left there, pass the
\* number of this pass of the loop.
RECURSIVE ProcessVhci(_, _, _, _, _)
ProcessVhci(buf, off, held, pass, fault) ==
    LET r == get_packet_len(buf) IN
    IF ~LoopAgain(Len(buf), pass) \/ r.len <= 0 \/ r.len > Len(buf)
    THEN Processed(buf, <<>>, <<>>)
    ELSE LET pkt == Take(buf, r.len)
             fwd == ForwardVhci(r.internal)
             rest == ProcessVhci(RemovePacket(buf, r.len), off + r.len,
                                 IF held > r.len THEN held - r.len ELSE 0,
                                 pass + 1,
                                 IF fwd THEN NextFault(fault) ELSE fault)
         IN  Processed(rest.buf,
                       <<Extracted(pkt, r.internal, off, held, pass)>> \o rest.ext,
                       (IF fwd THEN <<WriteCall(pkt, WriteReturn(fault, r.len), off)>>
                        ELSE <<>>) \o rest.wr)

\* while (stpbt_len > 0) { ... }: the same loop with the write on vhci_fd
RECURSIVE ProcessStpbt(_, _, _, _, _)
ProcessStpbt(buf, off, held, pass, fault) ==
    LET r == get_packet_len(buf) IN
    IF ~LoopAgain(Len(buf), pass) \/ r.len <= 0 \/ r.len > Len(buf)
    THEN Processed(buf, <<>>, <<>>)
    ELSE LET pkt == Take(buf, r.len)
             fwd == ForwardStpbt(r.internal)
             rest == ProcessStpbt(RemovePacket(buf, r.len), off + r.len,
                                 IF held > r.len THEN held - r.len ELSE 0,
                                 pass + 1,
                                 IF fwd THEN NextFault(fault) ELSE fault)
         IN  Processed(rest.buf,
                       <<Extracted(pkt, r.internal, off, held, pass)>> \o rest.ext,
                       (IF fwd THEN <<WriteCall(pkt, WriteReturn(fault, r.len), off)>>
                        ELSE <<>>) \o rest.wr)

\* mutant: the host-side handler writing back on vhci_fd
VhciHandlerWrites_Echo(calls) == [on_stpbt |-> <<>>, on_vhci |-> calls]

\* write(stpbt_fd, vhci_buf, pkt_len): the write() calls of the handler of
\* vhci_fd, by the descriptor they are made on
VhciHandlerWrites(calls) == [on_stpbt |-> calls, on_vhci |-> <<>>]

\* write(vhci_fd, stpbt_buf, pkt_len): those of the handler of stpbt_fd
StpbtHandlerWrites(calls) == [on_stpbt |-> <<>>, on_vhci |-> calls]

\* the faults one handler run may meet: none, or one write() that comes back
\* short or failed, among the writes the run makes
WriteFaults(nwrites, faulty) ==
    {NoFault} \cup
    (IF faulty >= MaxFaults THEN {}
     ELSE {[at |-> i, kind |-> k] : i \in 1..nwrites, k \in {"short", "fail"}})

\* what read(fd, buf + len, BUF_SIZE - len) can return with rx queued:
\* n > 0 bytes, 0 (always so when the size asked for is 0), or -1 with errno
\* EAGAIN or another errno
ReadResults(rx, buf) ==
    {[n |-> k, errno |-> "none"] : k \in 1..Min(Len(rx), BUF_SIZE - Len(buf))}
    \cup {[n |-> 0, errno |-> "none"]}
    \cup (IF Len(rx) = 0 THEN {[n |-> -1, errno |-> "EAGAIN"]} ELSE {})
    \cup {[n |-> -1, errno |-> "EIO"]}

---------------------------------------------------------------------------
(* The system calls of main and what main does with their results.         *)

\* a call, the sign of its return value (-1, 0, 1), and errno when it is -1
SysResult(call, n, errno) == [call |-> call, n |-> n, errno |-> errno]

Sign(n) == IF n > 0 THEN 1 ELSE IF n < 0 THEN -1 ELSE 0

\* what open() can return for a device: the descriptor, or -1
OpenResults(fd) == {fd, -1}

\* mutant: the result of open() not tested
AfterOpen_Unchecked(fd, next) == next

\* if (fd < 0) { perror(...); goto cleanup; }
AfterOpen(fd, next) == IF fd < 0 THEN "cleanup" ELSE next

\* what select() can return: -1 with EINTR or another errno, 0 on timeout,
\* or the number of ready descriptors
SelectResults ==
    {SysResult("select", -1, "EINTR"), SysResult("select", -1, "EBADF"),
     SysResult("select", 0, "none"), SysResult("select", 1, "none")}

\* mutant: while (1)
LoopTest_Forever(r) == TRUE

\* while (running)
LoopTest(r) == r # 0

\* mutant: every failure of select() leaves the loop
WaitFailed_Any(r) == r.n < 0

\* if (n < 0) { if (errno == EINTR) continue; perror("select"); break; }
WaitFailed(r) == r.n < 0 /\ r.errno # "EINTR"

\* mutant: a read that delivers nothing leaves the loop
AfterRead_Fatal(rd, next) == IF rd.n <= 0 THEN "cleanup" ELSE next

\* else if (n < 0 && errno != EAGAIN) perror(...): main goes on to the next
\* statement of the loop body whatever read() returned
AfterRead(rd, next) == next

\* mutant: close(fd) without the test
CloseIfOpen_Always(fd) == <<fd>>

\* if (fd >= 0) close(fd);
CloseIfOpen(fd) == IF fd >= 0 THEN <<fd>> ELSE <<>>

\* mutant: the descriptors closed in the order they were opened
CloseOrder_AsOpened(s, v) == v \o s

\* cleanup: close(stpbt_fd), then close(vhci_fd)
CloseOrder(s, v) == s \o v

---------------------------------------------------------------------------
(* The peers: H4 frames (type byte, header, payload), and a byte of a type *)
(* this bridge does not know.                                              *)

Payload(n) == [i \in 1..n |-> 170]

\* the data of a vendor packet is opaque: here filler bytes, or bytes that
\* happen to read as an Event packet
VendorData == {Payload(n) : n \in 0..MaxParam} \cup {<<HCI_EVENT_PKT, 14, 0>>}

PeerFrames ==
    {<<HCI_COMMAND_PKT, 12, 32, n>> \o Payload(n) : n \in 0..MaxParam}
    \cup {<<HCI_ACLDATA_PKT, 1, 0, n, 0>> \o Payload(n) : n \in 0..MaxParam}
    \cup {<<HCI_SCODATA_PKT, 1, 0, n>> \o Payload(n) : n \in 0..MaxParam}
    \cup {<<HCI_EVENT_PKT, 14, n>> \o Payload(n) : n \in 0..MaxParam}
    \cup {<<HCI_VHCI_PKT, 1>> \o d : d \in VendorData}
    \cup {<<5>>}

\* the write() calls so far that did not write the whole frame
Faulty == Cardinality({i \in 1..Len(vhci_wr) : vhci_wr[i].n # Len(vhci_wr[i].data)})
          + Cardinality({i \in 1..Len(stpbt_wr) : stpbt_wr[i].n # Len(stpbt_wr[i].data)})

BytesSent == Len(Flatten(vhci_sent)) + Len(Flatten(stpbt_sent))

---------------------------------------------------------------------------
(* The other programs at their start.                                      *)

\* get_packet_len not called yet
NoResult == [len |-> -2, internal |-> FALSE]

\* a step that makes no system call, or whose calls' results main ignores
NoCall == SysResult("none", 0, "none")

\* safe_write has not returned yet
NoReturn == -2

\* the bytes the two peers of the PTY bridge have queued: the controller on
\* /dev/stpbt, the line discipline on the PTY
StpbtStream == [i \in 1..MaxStream |-> i]

PtyStream == [i \in 1..MaxStream |-> 100 + i]

\* bridge_data(stpbt_fd, pty_fd) entered: running, buffer and n of the
\* source; fd, count, total and ret are safe_write's arguments fd and count,
\* its total and its return value; revents is fds[0].revents and fds[1].revents; rx
\* is what is queued on each descriptor, rd and wr are the histories of the
\* bytes read from and written to each; out is what the current call of
\* safe_write has written; call is the system call of the step just taken
PtyStart ==
    [pc |-> "loop", running |-> 1, buffer |-> <<>>, n |-> 0,
     fd |-> "none", total |-> 0, count |-> 0, ret |-> NoReturn, out |-> <<>>,
     revents |-> [stpbt |-> {}, pty |-> {}],
     rx |-> [stpbt |-> StpbtStream, pty |-> PtyStream],
     rd |-> [stpbt |-> <<>>, pty |-> <<>>],
     wr |-> [stpbt |-> <<>>, pty |-> <<>>],
     call |-> NoCall]

\* main of bt_connect.c with the socket open: conn_handle, done,
\* name_timeout and timeout of the source; sent is the history of the
\* commands written to the socket, cc the Connection Complete events (status
\* and handle) handed to process_event so far
BtStart ==
    [pc |-> "start", conn_handle |-> -1, done |-> 0,
     name_timeout |-> BtNameTimeout, timeout |-> BtTimeout,
     sent |-> <<>>, cc |-> {}]

\* ble_connect at the call of send_cmd for LE Set Scan Enable: sent are the
\* commands written to the socket, got is what the last poll and read gave
\* main, established tells that a successful LE Connection Complete has been
\* handed to process_event
BleStart ==
    [pc |-> "start", keep_running |-> 1, conn_handle |-> -1, connected |-> 0,
     done |-> 0, timeout_counter |-> BleTimeout, sent |-> <<>>,
     got |-> [poll |-> NoReturn, len |-> NoReturn, errno |-> "none", buf |-> <<>>],
     established |-> FALSE]

InitTools ==
    /\ pty = PtyStart
    /\ bt = BtStart
    /\ ble = BleStart

---------------------------------------------------------------------------
(* Initial state: main() entered, nothing opened.                          *)

InitBridge ==
    /\ pc = "open_vhci"
    /\ running = 1
    /\ ret = 1
    /\ vhci_fd = -1
    /\ stpbt_fd = -1
    /\ closed = <<>>
    /\ rfds = {}
    /\ vhci_buf = <<>>
    /\ stpbt_buf = <<>>
    /\ vhci_rx = <<>>
    /\ stpbt_rx = <<>>
    /\ vhci_wr = <<>>
    /\ stpbt_wr = <<>>
    /\ vhci_in = <<>>
    /\ stpbt_in = <<>>
    /\ vhci_ext = <<>>
    /\ stpbt_ext = <<>>
    /\ vhci_sent = <<>>
    /\ stpbt_sent = <<>>
    /\ syscall = NoCall

Init ==
    /\ InitBridge
    /\ rbuf = <<>>
    /\ rres = NoResult
    /\ InitTools

dataVars == <<vhci_buf, stpbt_buf, vhci_rx, stpbt_rx, vhci_wr, stpbt_wr, vhci_in,
              stpbt_in, vhci_ext, stpbt_ext, vhci_sent, stpbt_sent>>

resolverVars == <<rbuf, rres>>

toolVars == <<pty, bt, ble>>

---------------------------------------------------------------------------
(* Actions of main *)

\* signal_handler, installed for SIGINT and SIGTERM before anything is opened
SignalHandler ==
    /\ pc # "done"
    /\ running' = 0
    /\ syscall' = NoCall
    /\ UNCHANGED <<pc, ret, vhci_fd, stpbt_fd, closed, rfds, dataVars, resolverVars, toolVars>>

\* vhci_fd = open(VHCI_DEV, O_RDWR)
OpenVhci ==
    /\ pc = "open_vhci"
    /\ \E fd \in OpenResults(VHCI_FD) :
         /\ vhci_fd' = fd
         /\ syscall' = SysResult("open vhci", Sign(fd), IF fd < 0 THEN "ENOENT" ELSE "none")
         /\ pc' = AfterOpen(fd, "open_stpbt")
    /\ UNCHANGED <<running, ret, stpbt_fd, closed, rfds, dataVars, resolverVars, toolVars>>

\* stpbt_fd = open(STPBT_DEV, O_RDWR)
OpenStpbt ==
    /\ pc = "open_stpbt"
    /\ \E fd \in OpenResults(STPBT_FD) :
         /\ stpbt_fd' = fd
         /\ syscall' = SysResult("open stpbt", Sign(fd), IF fd < 0 THEN "ENOENT" ELSE "none")
         /\ pc' = AfterOpen(fd, "nonblock")
    /\ UNCHANGED <<running, ret, vhci_fd, closed, rfds, dataVars, resolverVars, toolVars>>

\* set_nonblocking(vhci_fd) < 0 || set_nonblocking(stpbt_fd) < 0
SetNonblocking ==
    /\ pc = "nonblock"
    /\ \E ok \in BOOLEAN :
         /\ syscall' = SysResult("fcntl", IF ok THEN 0 ELSE -1, IF ok THEN "none" ELSE "EBADF")
         /\ pc' = IF ok THEN "loop" ELSE "cleanup"
    /\ UNCHANGED <<running, ret, vhci_fd, stpbt_fd, closed, rfds, dataVars, resolverVars, toolVars>>

\* while (running) { select(...) ... }: the loop test found true, and the wait.
\* n < 0 with EINTR and n == 0 continue; n < 0 otherwise breaks, and the code
\* after the loop sets ret = 0; n > 0 goes on to the handlers of the
\* descriptors in rfds.
Select ==
    /\ pc = "loop"
    /\ LoopTest(running)
    /\ \E out \in SelectResults :
         /\ syscall' = out
         /\ CASE WaitFailed(out) -> pc' = "cleanup" /\ rfds' = {} /\ ret' = 0
              [] ~WaitFailed(out) /\ out.n <= 0 -> pc' = "loop" /\ rfds' = {} /\ ret' = ret
              [] out.n > 0 ->
                   \E r \in (SUBSET {vhci_fd, stpbt_fd}) \ {{}} :
                       /\ rfds' = r
                       /\ pc' = IF vhci_fd \in r THEN "read_vhci" ELSE "read_stpbt"
                       /\ ret' = ret
    /\ UNCHANGED <<running, vhci_fd, stpbt_fd, closed, dataVars, resolverVars, toolVars>>

\* while (running) found false: printf("Shutting down bridge..."); ret = 0;
LoopExit ==
    /\ pc = "loop"
    /\ ~LoopTest(running)
    /\ ret' = 0
    /\ pc' = "cleanup"
    /\ syscall' = NoCall
    /\ UNCHANGED <<running, vhci_fd, stpbt_fd, closed, rfds, dataVars, resolverVars, toolVars>>

\* if (FD_ISSET(vhci_fd, &rfds)) { read; process complete packets }
ReadVhci ==
    /\ pc = "read_vhci"
    /\ rfds' = rfds \ {vhci_fd}
    /\ \E rd \in ReadResults(vhci_rx, vhci_buf) :
         /\ pc' = AfterRead(rd, IF stpbt_fd \in rfds THEN "read_stpbt" ELSE "loop")
         /\ syscall' = SysResult("read", Sign(rd.n), rd.errno)
         /\ IF rd.n > 0
           THEN LET got == Take(vhci_rx, rd.n)
                    off == Len(vhci_in) - Len(vhci_buf)
                    buf == AppendRead(vhci_buf, got)
                    nw  == Len(ProcessVhci(buf, off, Len(vhci_buf), 1, NoFault).wr)
                IN  \E fault \in WriteFaults(nw, Faulty) :
                      LET p == ProcessVhci(buf, off, Len(vhci_buf), 1, fault) IN
                      /\ vhci_rx' = Drop(vhci_rx, rd.n)
                      /\ vhci_in' = vhci_in \o got
                      /\ vhci_buf' = p.buf
                      /\ vhci_ext' = vhci_ext \o p.ext
                      /\ stpbt_wr' = stpbt_wr \o VhciHandlerWrites(p.wr).on_stpbt
                      /\ vhci_wr' = vhci_wr \o VhciHandlerWrites(p.wr).on_vhci
           ELSE UNCHANGED <<vhci_rx, vhci_in, vhci_buf, vhci_ext, stpbt_wr, vhci_wr>>
    /\ UNCHANGED <<running, ret, vhci_fd, stpbt_fd, closed, stpbt_buf, stpbt_rx,
                   stpbt_in, stpbt_ext, vhci_sent, stpbt_sent, resolverVars, toolVars>>

\* if (FD_ISSET(stpbt_fd, &rfds)) { read; process complete packets }
ReadStpbt ==
    /\ pc = "read_stpbt"
    /\ rfds' = {}
    /\ \E rd \in ReadResults(stpbt_rx, stpbt_buf) :
         /\ pc' = AfterRead(rd, "loop")
         /\ syscall' = SysResult("read", Sign(rd.n), rd.errno)
         /\ IF rd.n > 0
           THEN LET got == Take(stpbt_rx, rd.n)
                    off == Len(stpbt_in) - Len(stpbt_buf)
                    buf == AppendRead(stpbt_buf, got)
                    nw  == Len(ProcessStpbt(buf, off, Len(stpbt_buf), 1, NoFault).wr)
                IN  \E fault \in WriteFaults(nw, Faulty) :
                      LET p == ProcessStpbt(buf, off, Len(stpbt_buf), 1, fault) IN
                      /\ stpbt_rx' = Drop(stpbt_rx, rd.n)
                      /\ stpbt_in' = stpbt_in \o got
                      /\ stpbt_buf' = p.buf
                      /\ stpbt_ext' = stpbt_ext \o p.ext
                      /\ vhci_wr' = vhci_wr \o StpbtHandlerWrites(p.wr).on_vhci
                      /\ stpbt_wr' = stpbt_wr \o StpbtHandlerWrites(p.wr).on_stpbt
           ELSE UNCHANGED <<stpbt_rx, stpbt_in, stpbt_buf, stpbt_ext, vhci_wr, stpbt_wr>>
    /\ UNCHANGED <<running, ret, vhci_fd, stpbt_fd, closed, vhci_buf, vhci_rx,
                   vhci_in, vhci_ext, vhci_sent, stpbt_sent, resolverVars, toolVars>>

\* cleanup: close(stpbt_fd) if open, then close(vhci_fd) if open; return ret
Cleanup ==
    /\ pc = "cleanup"
    /\ closed' = closed \o CloseOrder(CloseIfOpen(stpbt_fd), CloseIfOpen(vhci_fd))
    /\ pc' = "done"
    /\ syscall' = NoCall
    /\ UNCHANGED <<running, ret, vhci_fd, stpbt_fd, rfds, dataVars, resolverVars, toolVars>>

\* A peer queues its frames while the bridge waits in select(): a frame queued
\* while a handler runs is seen by the bridge exactly as one queued before or
\* after that handler, and one queued after the last loop test is never read.
PeerMaySend == pc = "loop" /\ running # 0

\* the host stack queues a frame on /dev/vhci
PeerSendVhci ==
    /\ PeerMaySend
    /\ \E f \in PeerFrames :
         /\ BytesSent + Len(f) <= MaxBytes
         /\ vhci_rx' = vhci_rx \o f
         /\ vhci_sent' = Append(vhci_sent, f)
    /\ syscall' = NoCall
    /\ UNCHANGED <<pc, running, ret, vhci_fd, stpbt_fd, closed, rfds, vhci_buf, stpbt_buf,
                   stpbt_rx, vhci_wr, stpbt_wr, vhci_in, stpbt_in, vhci_ext, stpbt_ext,
                   stpbt_sent, resolverVars, toolVars>>

\* the controller queues a frame on /dev/stpbt
PeerSendStpbt ==
    /\ PeerMaySend
    /\ \E f \in PeerFrames :
         /\ BytesSent + Len(f) <= MaxBytes
         /\ stpbt_rx' = stpbt_rx \o f
         /\ stpbt_sent' = Append(stpbt_sent, f)
    /\ syscall' = NoCall
    /\ UNCHANGED <<pc, running, ret, vhci_fd, stpbt_fd, closed, rfds, vhci_buf, stpbt_buf,
                   vhci_rx, vhci_wr, stpbt_wr, vhci_in, stpbt_in, vhci_ext, stpbt_ext,
                   vhci_sent, resolverVars, toolVars>>

Next ==
    \/ SignalHandler
    \/ OpenVhci
    \/ OpenStpbt
    \/ SetNonblocking
    \/ Select
    \/ LoopExit
    \/ ReadVhci
    \/ ReadStpbt
    \/ Cleanup
    \/ PeerSendVhci
    \/ PeerSendStpbt

Spec == Init /\ [][Next]_vars

\* main is a sequential program: it takes its next step.  select() returns
\* within its one-second timeout and the descriptors are non-blocking, so no
\* step of main waits for ever.  The signal and the peers are not obliged to
\* do anything.
MainStep ==
    \/ OpenVhci
    \/ OpenStpbt
    \/ SetNonblocking
    \/ Select
    \/ LoopExit
    \/ ReadVhci
    \/ ReadStpbt
    \/ Cleanup

SpecLive == Spec /\ WF_vars(MainStep)

---------------------------------------------------------------------------
(* The bridge with an accumulator near BUF_SIZE.  A peer has sent the      *)
(* beginning of an ACL-Data packet whose data_len is 0xffff: 65540 bytes,  *)
(* more than the accumulator holds, so that no read completes it.  The     *)
(* behaviours start either at the entry of main or in the loop at the      *)
(* point where all but two bytes of the accumulator are in use, MaxPending *)
(* more bytes are queued behind it, and the other endpoint has two Event   *)
(* packets queued; or in the loop with packets longer than the peers of    *)
(* Spec send queued on both endpoints.                                     *)

\* the first n bytes of the oversize packet
OversizeFrame(n) == <<HCI_ACLDATA_PKT, 1, 0, 255, 255>> \o [i \in 1..(n - 5) |-> 170]

\* what the other peer has queued
SmallFrames == <<<<HCI_EVENT_PKT, 14, 0>>, <<HCI_EVENT_PKT, 14, 1, 170>>>>

InitFilled ==
    /\ pc = "loop"
    /\ running = 1
    /\ ret = 1
    /\ vhci_fd = VHCI_FD
    /\ stpbt_fd = STPBT_FD
    /\ closed = <<>>
    /\ rfds = {}
    /\ syscall = NoCall
    /\ vhci_wr = <<>>
    /\ stpbt_wr = <<>>
    /\ vhci_ext = <<>>
    /\ stpbt_ext = <<>>
    /\ \E big \in {"vhci", "stpbt"} :
         LET held == OversizeFrame(BUF_SIZE - 2)
             more == Payload(MaxPending)
         IN  /\ vhci_buf = IF big = "vhci" THEN held ELSE <<>>
             /\ vhci_in = vhci_buf
             /\ vhci_rx = IF big = "vhci" THEN more ELSE Flatten(SmallFrames)
             /\ vhci_sent = IF big = "vhci" THEN <<held \o more>> ELSE SmallFrames
             /\ stpbt_buf = IF big = "stpbt" THEN held ELSE <<>>
             /\ stpbt_in = stpbt_buf
             /\ stpbt_rx = IF big = "stpbt" THEN more ELSE Flatten(SmallFrames)
             /\ stpbt_sent = IF big = "stpbt" THEN <<held \o more>> ELSE SmallFrames

\* the Event packet 04 0e 04 01 0c 20 00 (Command Complete, 7 bytes)
ExampleEvent == <<HCI_EVENT_PKT, 14, 4, 1, 12, 32, 0>>

\* two whole Event packets and a Command packet behind them
SeveralFrames == <<<<HCI_EVENT_PKT, 14, 0>>, <<HCI_EVENT_PKT, 14, 0>>,
                   <<HCI_COMMAND_PKT, 12, 32, 0>>>>

\* in the loop with empty accumulators: the controller has queued
\* ExampleEvent and the host stack SeveralFrames
InitExample ==
    /\ pc = "loop"
    /\ running = 1
    /\ ret = 1
    /\ vhci_fd = VHCI_FD
    /\ stpbt_fd = STPBT_FD
    /\ closed = <<>>
    /\ rfds = {}
    /\ syscall = NoCall
    /\ vhci_wr = <<>>
    /\ stpbt_wr = <<>>
    /\ vhci_ext = <<>>
    /\ stpbt_ext = <<>>
    /\ vhci_buf = <<>>
    /\ stpbt_buf = <<>>
    /\ vhci_in = <<>>
    /\ stpbt_in = <<>>
    /\ vhci_rx = Flatten(SeveralFrames)
    /\ vhci_sent = SeveralFrames
    /\ stpbt_rx = ExampleEvent
    /\ stpbt_sent = <<ExampleEvent>>

InitFull ==
    /\ InitBridge \/ InitFilled \/ InitExample
    /\ rbuf = <<>>
    /\ rres = NoResult
    /\ InitTools

SpecFull == InitFull /\ [][Next]_vars

---------------------------------------------------------------------------
(* get_packet_len on its own: called once on a buffer whose type byte      *)
(* ranges over TagSamples and whose length bytes range over 0..255.        *)

TagSamples == {0, HCI_COMMAND_PKT, HCI_ACLDATA_PKT, HCI_SCODATA_PKT, HCI_EVENT_PKT,
               5, 254, HCI_VHCI_PKT}

ByteSamples == {0, 1, 255}

AllBytes == 0..255

\* buf[2], buf[3], buf[4]: one of them any byte, the others sampled
LenBytes ==
    (AllBytes \X ByteSamples \X ByteSamples)
    \cup (ByteSamples \X AllBytes \X ByteSamples)
    \cup (ByteSamples \X ByteSamples \X AllBytes)

\* the buffer buf[0 .. n) of a header with type byte t and length bytes l
ResolverInput(t, l, n) == Take(<<t, 0, l[1], l[2], l[3]>> \o Payload(MaxHdr), n)

InitResolver ==
    /\ InitBridge
    /\ rres = NoResult
    /\ InitTools
    /\ \E t \in TagSamples, l \in LenBytes, n \in 0..MaxHdr :
         rbuf = ResolverInput(t, l, n)

\* pkt_len = get_packet_len(buf, len, &is_vhci_internal)
Resolve ==
    /\ rres = NoResult
    /\ rres' = get_packet_len(rbuf)
    /\ UNCHANGED <<pc, running, ret, vhci_fd, stpbt_fd, closed, rfds, syscall, dataVars,
                   rbuf, toolVars>>

NextResolver == Resolve

SpecResolver == InitResolver /\ [][NextResolver]_vars

---------------------------------------------------------------------------
(* The PTY bridge: bridge_data of src/src/pty_stpbt_bridge.c, entered with *)
(* both descriptors open and non-blocking.  One buffer serves both         *)
(* directions.  The positions are the loop test with poll ("loop"), the    *)
(* handler of fds[0] at its read ("stpbt") and inside its safe_write       *)
(* ("stpbt_write"), the same for fds[1] ("pty", "pty_write"), the test of  *)
(* the error bits ("check"), and "return".                                 *)

mainVars == <<pc, running, ret, vhci_fd, stpbt_fd, closed, rfds, syscall, dataVars,
              resolverVars>>

\* mutant: what was read is written back to the descriptor it came from
WriteTarget_Same(src) == src

\* safe_write(pty_fd, buffer, n) after the read of stpbt_fd, and
\* safe_write(stpbt_fd, buffer, n) after the read of pty_fd
WriteTarget(src) == IF src = "stpbt" THEN "pty" ELSE "stpbt"

\* the bits poll can set in one revents
PollFlags == SUBSET {"POLLIN", "POLLERR"}

\* what poll(fds, 2, 1000) can return: -1 with EINTR or another errno, 0 on
\* timeout, or a positive count with some bit set in some revents
PollResults ==
    {[n |-> -1, errno |-> e, revents |-> [stpbt |-> {}, pty |-> {}]] : e \in {"EINTR", "EBADF"}}
    \cup {[n |-> 0, errno |-> "none", revents |-> [stpbt |-> {}, pty |-> {}]]}
    \cup {[n |-> 1, errno |-> "none", revents |-> [stpbt |-> f[1], pty |-> f[2]]] :
             f \in {g \in PollFlags \X PollFlags : g[1] # {} \/ g[2] # {}}}

\* if (ret < 0) { if (errno == EINTR) continue; break; } if (ret == 0) continue;
AfterPoll(r) ==
    IF r.n < 0 THEN (IF r.errno = "EINTR" THEN "loop" ELSE "return")
    ELSE IF r.n = 0 THEN "loop" ELSE "stpbt"

\* safe_read(fd, buffer, sizeof(buffer)): read() repeated while it fails with
\* EINTR, so what it returns is some bytes, 0, or -1 with another errno
SafeReadResults(rx) ==
    {[n |-> k, errno |-> "none"] : k \in 1..Min(Len(rx), BUFFER_SIZE)}
    \cup {[n |-> 0, errno |-> "none"]}
    \cup {[n |-> -1, errno |-> e] : e \in {"EAGAIN", "EIO"}}

\* if (n < 0) { if (errno != EAGAIN && errno != EWOULDBLOCK) break; }
AfterSafeRead(r, next) ==
    IF r.n < 0 /\ r.errno # "EAGAIN" THEN "return" ELSE next

\* what write(fd, buf + total, count - total) can return with left bytes to
\* write: some of them, or -1 with EINTR, EAGAIN or another errno
WriteResults(left) ==
    {[n |-> k, errno |-> "none"] : k \in 1..left}
    \cup {[n |-> -1, errno |-> e] : e \in {"EINTR", "EAGAIN", "EIO"}}

SafeWriteState(total, r) == [total |-> total, ret |-> r]

\* mutant: the count of the first write returned, no loop
SafeWriteStep_NoRetry(total, count, w) ==
    IF w.n < 0 THEN SafeWriteState(total, -1)
    ELSE SafeWriteState(total + w.n, total + w.n)

\* one pass of the loop of safe_write on the result w of its write():
\* n < 0 with EINTR: continue; n < 0: return -1; else total += n and the
\* loop test, return total
SafeWriteStep(total, count, w) ==
    IF w.n < 0
    THEN IF w.errno = "EINTR" THEN SafeWriteState(total, NoReturn)
         ELSE SafeWriteState(total, -1)
    ELSE IF total + w.n < count THEN SafeWriteState(total + w.n, NoReturn)
         ELSE SafeWriteState(total + w.n, total + w.n)

\* if (safe_write(...) < 0) { perror(...); break; }
AfterSafeWrite(r, here, next) ==
    IF r = NoReturn THEN here ELSE IF r < 0 THEN "return" ELSE next

\* signal_handler: running = 0
PtySignal ==
    /\ pty.pc # "return"
    /\ pty' = [pty EXCEPT !.running = 0, !.call = NoCall]
    /\ UNCHANGED <<mainVars, bt, ble>>

\* while (running) { int ret = poll(fds, 2, 1000); ... }
PtyPoll ==
    /\ pty.pc = "loop"
    /\ pty.running # 0
    /\ \E r \in PollResults :
         pty' = [pty EXCEPT !.pc = AfterPoll(r),
                            !.revents = r.revents,
                            !.call = SysResult("poll", r.n, r.errno)]
    /\ UNCHANGED <<mainVars, bt, ble>>

\* while (running) found false: bridge_data returns
PtyLoopExit ==
    /\ pty.pc = "loop"
    /\ pty.running = 0
    /\ pty' = [pty EXCEPT !.pc = "return", !.call = NoCall]
    /\ UNCHANGED <<mainVars, bt, ble>>

\* if (fds[i].revents & POLLIN) { n = safe_read(src, buffer, sizeof(buffer));
\* if (n < 0) ... else if (n > 0) { safe_write(...) entered } }
PtyHandlerRead(src, here, next) ==
    /\ IF "POLLIN" \notin pty.revents[src]
       THEN pty' = [pty EXCEPT !.pc = next, !.call = NoCall]
       ELSE \E r \in SafeReadResults(pty.rx[src]) :
              IF r.n > 0
              THEN pty' = [pty EXCEPT !.pc = here \o "_write",
                                      !.n = r.n,
                                      !.buffer = Take(pty.rx[src], r.n),
                                      !.rx[src] = Drop(@, r.n),
                                      !.rd[src] = @ \o Take(pty.rx[src], r.n),
                                      !.fd = WriteTarget(src),
                                      !.total = 0,
                                      !.count = r.n,
                                      !.ret = NoReturn,
                                      !.out = <<>>,
                                      !.call = SysResult("read", 1, "none")]
              ELSE pty' = [pty EXCEPT !.pc = AfterSafeRead(r, next),
                                      !.n = r.n,
                                      !.call = SysResult("read", r.n, r.errno)]
    /\ UNCHANGED <<mainVars, bt, ble>>

\* one write() of safe_write(fd, buffer, n), and its return to bridge_data
PtyHandlerWrite(here, next) ==
    /\ \E w \in WriteResults(pty.count - pty.total) :
         LET st == SafeWriteStep(pty.total, pty.count, w)
             bytes == IF w.n > 0
                      THEN SubSeq(pty.buffer, pty.total + 1, pty.total + w.n)
                      ELSE <<>>
         IN  pty' = [pty EXCEPT !.pc = AfterSafeWrite(st.ret, here, next),
                                !.total = st.total,
                                !.ret = st.ret,
                                !.out = @ \o bytes,
                                !.wr[pty.fd] = @ \o bytes,
                                !.call = SysResult("write", Sign(w.n), w.errno)]
    /\ UNCHANGED <<mainVars, bt, ble>>

\* stpbt -> pty
PtyReadStpbt ==
    /\ pty.pc = "stpbt"
    /\ PtyHandlerRead("stpbt", "stpbt", "pty")

PtyWritePty ==
    /\ pty.pc = "stpbt_write"
    /\ PtyHandlerWrite("stpbt_write", "pty")

\* pty -> stpbt
PtyReadPty ==
    /\ pty.pc = "pty"
    /\ PtyHandlerRead("pty", "pty", "check")

PtyWriteStpbt ==
    /\ pty.pc = "pty_write"
    /\ PtyHandlerWrite("pty_write", "check")

\* if (revents & (POLLERR | POLLHUP | POLLNVAL)) break;
PtyCheck ==
    /\ pty.pc = "check"
    /\ pty' = [pty EXCEPT !.pc = IF "POLLERR" \in (pty.revents.stpbt \cup pty.revents.pty)
                                  THEN "return" ELSE "loop",
                          !.call = NoCall]
    /\ UNCHANGED <<mainVars, bt, ble>>

NextPty ==
    \/ PtySignal
    \/ PtyPoll
    \/ PtyLoopExit
    \/ PtyReadStpbt
    \/ PtyWritePty
    \/ PtyReadPty
    \/ PtyWriteStpbt
    \/ PtyCheck

SpecPty == Init /\ [][NextPty]_vars

---------------------------------------------------------------------------
(* bt_connect: main and process_event of src/src/bt_connect.c, from the    *)
(* point where the HCI socket is open.  The positions are the statements   *)
(* before the first loop ("start"), the wait for the remote name           *)
(* ("name_wait"), the Create Connection command ("create"), the wait for   *)
(* events ("conn_wait"), the test of conn_handle ("check"), the wait for   *)
(* the disconnection ("disc_wait"), close ("close") and "exit".  A packet  *)
(* is the bytes read from the socket: type, event code, parameter length  *)
(* and the parameter bytes process_event reads.                            *)

\* send_cmd(fd, opcode, params, plen): the command written
Command(opcode, params) == [opcode |-> opcode, params |-> params]

\* the handles and status codes the controller reports
Handles == {1, 257}

Statuses == {0, 4}

ConnCompleteEvent(status, handle) ==
    <<HCI_EVENT_PKT, HCI_EV_CONN_COMPLETE, 11, status, handle % 256, handle \div 256>>

CmdStatusEvent(status) ==
    <<HCI_EVENT_PKT, HCI_EV_CMD_STATUS, 4, status, 1,
      HCI_OP_CREATE_CONN % 256, HCI_OP_CREATE_CONN \div 256>>

DisconnCompleteEvent(handle) ==
    <<HCI_EVENT_PKT, HCI_EV_DISCONN_COMPLETE, 4, 0, handle % 256, handle \div 256, 19>>

\* what read(fd, buf, sizeof(buf)) can deliver
BtPackets ==
    {ConnCompleteEvent(st, h) : st \in Statuses, h \in Handles}
    \cup {CmdStatusEvent(st) : st \in Statuses}
    \cup {DisconnCompleteEvent(h) : h \in Handles}
    \cup {<<HCI_EVENT_PKT, HCI_EV_REMOTE_NAME, 255, 0>>,
          <<HCI_EVENT_PKT, HCI_EV_CMD_COMPLETE, 4, 1, 0, 0, 0>>,
          <<HCI_EVENT_PKT, HCI_EV_ENCRYPT_CHANGE, 4, 0, 1, 0, 1>>,
          <<HCI_ACLDATA_PKT, 1, 0, 0, 0>>}

\* what poll(&pfd, 1, ms) followed by read can give main: poll failed, poll
\* timed out, or the socket is readable and read returns a packet, 0, or
\* -1 with EAGAIN or another errno
BtInputs ==
    {[poll |-> -1, len |-> 0, errno |-> "EBADF", buf |-> <<>>],
     [poll |-> 0, len |-> 0, errno |-> "none", buf |-> <<>>],
     [poll |-> 1, len |-> 0, errno |-> "none", buf |-> <<>>],
     [poll |-> 1, len |-> -1, errno |-> "EAGAIN", buf |-> <<>>],
     [poll |-> 1, len |-> -1, errno |-> "EIO", buf |-> <<>>]}
    \cup {[poll |-> 1, len |-> Len(b), errno |-> "none", buf |-> b] : b \in BtPackets}

\* process_event(buf, len, &conn_handle, &done): the values of conn_handle
\* and done after the call, and the history of Connection Complete events
BtProcessEvent(b, buf) ==
    LET event == buf[2]
        data == [i \in 0..(Len(buf) - 4) |-> buf[i + 4]]
    IN  CASE event = HCI_EV_CMD_STATUS ->
                 [b EXCEPT !.done = IF data[0] # 0 THEN 1 ELSE @]
          [] event = HCI_EV_CONN_COMPLETE ->
                 [b EXCEPT !.conn_handle = BitOr(data[1], Shl8(data[2])),
                           !.done = IF data[0] = 0 THEN @ ELSE 1,
                           !.cc = @ \cup {[status |-> data[0],
                                            handle |-> BitOr(data[1], Shl8(data[2]))]}]
          [] event = HCI_EV_DISCONN_COMPLETE ->
                 [b EXCEPT !.done = 1]
          [] OTHER -> b

\* if (len > 0 && buf[0] == HCI_EVENT_PKT) process_event(...)
BtAfterRead(b, in) ==
    IF in.len > 0 /\ in.buf[1] = HCI_EVENT_PKT THEN BtProcessEvent(b, in.buf) ELSE b

\* send_cmd(fd, HCI_OP_REMOTE_NAME_REQ, name_params, 10)
BtSendNameReq ==
    /\ bt.pc = "start"
    /\ bt' = [bt EXCEPT !.pc = "name_wait",
                        !.sent = Append(@, Command(HCI_OP_REMOTE_NAME_REQ, <<>>))]
    /\ UNCHANGED <<mainVars, pty, ble>>

\* while (name_timeout > 0) { poll; read; process_event; }
BtNameWait ==
    /\ bt.pc = "name_wait"
    /\ bt.name_timeout > 0
    /\ \E in \in BtInputs :
         bt' = IF in.poll < 0 THEN [bt EXCEPT !.pc = "create"]
               ELSE IF in.poll = 0
               THEN [bt EXCEPT !.name_timeout = @ - BtPollTimeout]
               ELSE [BtAfterRead(bt, in) EXCEPT
                        !.pc = IF in.len > 0 /\ in.buf[1] = HCI_EVENT_PKT
                                  /\ in.buf[2] = HCI_EV_REMOTE_NAME
                               THEN "create" ELSE "name_wait"]
    /\ UNCHANGED <<mainVars, pty, ble>>

\* while (name_timeout > 0) found false
BtNameTimedOut ==
    /\ bt.pc = "name_wait"
    /\ bt.name_timeout <= 0
    /\ bt' = [bt EXCEPT !.pc = "create"]
    /\ UNCHANGED <<mainVars, pty, ble>>

\* send_cmd(fd, HCI_OP_CREATE_CONN, conn_params, 13)
BtCreateConn ==
    /\ bt.pc = "create"
    /\ bt' = [bt EXCEPT !.pc = "conn_wait",
                        !.sent = Append(@, Command(HCI_OP_CREATE_CONN, <<>>))]
    /\ UNCHANGED <<mainVars, pty, ble>>

\* while (!done && timeout > 0) { poll; read; process_event; }
BtConnWait ==
    /\ bt.pc = "conn_wait"
    /\ bt.done = 0 /\ bt.timeout > 0
    /\ \E in \in BtInputs :
         bt' = IF in.poll < 0 THEN [bt EXCEPT !.pc = "check"]
               ELSE IF in.poll = 0
               THEN [bt EXCEPT !.timeout = @ - BtPollTimeout]
               ELSE IF in.len < 0
               THEN [bt EXCEPT !.pc = IF in.errno = "EAGAIN" THEN "conn_wait" ELSE "check"]
               ELSE BtAfterRead(bt, in)
    /\ UNCHANGED <<mainVars, pty, ble>>

\* while (!done && timeout > 0) found false
BtConnWaitOver ==
    /\ bt.pc = "conn_wait"
    /\ ~(bt.done = 0 /\ bt.timeout > 0)
    /\ bt' = [bt EXCEPT !.pc = "check"]
    /\ UNCHANGED <<mainVars, pty, ble>>

\* if (conn_handle >= 0) { getchar(); send_cmd(fd, HCI_OP_DISCONNECT,
\* disc_params, 3); done = 0; ... }
BtDisconnect ==
    /\ bt.pc = "check"
    /\ bt' = IF bt.conn_handle >= 0
             THEN [bt EXCEPT !.pc = "disc_wait",
                             !.done = 0,
                             !.sent = Append(@, Command(HCI_OP_DISCONNECT,
                                                 <<bt.conn_handle % 256,
                                                   bt.conn_handle \div 256, 19>>))]
             ELSE [bt EXCEPT !.pc = "close"]
    /\ UNCHANGED <<mainVars, pty, ble>>

\* while (!done) { ret = poll(&pfd, 1, 5000); if (ret <= 0) break; read;
\* process_event; }
BtDiscWait ==
    /\ bt.pc = "disc_wait"
    /\ bt.done = 0
    /\ \E in \in BtInputs :
         bt' = IF in.poll <= 0 THEN [bt EXCEPT !.pc = "close"]
               ELSE BtAfterRead(bt, in)
    /\ UNCHANGED <<mainVars, pty, ble>>

\* while (!done) found false
BtDiscWaitOver ==
    /\ bt.pc = "disc_wait"
    /\ bt.done # 0
    /\ bt' = [bt EXCEPT !.pc = "close"]
    /\ UNCHANGED <<mainVars, pty, ble>>

\* close(fd); return 0;
BtClose ==
    /\ bt.pc = "close"
    /\ bt' = [bt EXCEPT !.pc = "exit"]
    /\ UNCHANGED <<mainVars, pty, ble>>

NextBt ==
    \/ BtSendNameReq
    \/ BtNameWait
    \/ BtNameTimedOut
    \/ BtCreateConn
    \/ BtConnWait
    \/ BtConnWaitOver
    \/ BtDisconnect
    \/ BtDiscWait
    \/ BtDiscWaitOver
    \/ BtClose

SpecBt == Init /\ [][NextBt]_vars

---------------------------------------------------------------------------
(* ble_connect: main, sig_handler and process_event of                     *)
(* src/src/ble_connect.c, from the point where the HCI socket is open and  *)
(* the filter is set.  The positions are the two commands before the loop  *)
(* ("start"), the wait loop ("wait"), the test after it ("check"), the     *)
(* wait for the disconnection ("disc_wait"), close ("close") and "exit".   *)

LeConnCompleteEvent(status, handle) ==
    <<HCI_EVENT_PKT, HCI_EV_LE_META, 19, HCI_EV_LE_CONN_COMPLETE, status,
      handle % 256, handle \div 256>>

LeAdvertisingReport ==
    <<HCI_EVENT_PKT, HCI_EV_LE_META, 12, HCI_EV_LE_ADVERTISING_REPORT, 1, 0, 0>>

BleCmdStatusEvent(status, opcode) ==
    <<HCI_EVENT_PKT, HCI_EV_CMD_STATUS, 4, status, 1, opcode % 256, opcode \div 256>>

\* what read(fd, buf, sizeof(buf)) can deliver
BlePackets ==
    {LeConnCompleteEvent(st, h) : st \in Statuses, h \in Handles}
    \cup {BleCmdStatusEvent(st, op) :
             st \in Statuses, op \in {HCI_OP_LE_CREATE_CONN, HCI_OP_DISCONNECT}}
    \cup {DisconnCompleteEvent(h) : h \in Handles}
    \cup {LeAdvertisingReport,
          <<HCI_EVENT_PKT, HCI_EV_CMD_COMPLETE, 4, 1, 12, 32, 0>>,
          <<HCI_ACLDATA_PKT, 1, 0, 0, 0>>}

\* what poll(&pfd, 1, ms) followed by read can give main: poll failed with
\* EINTR or another errno, poll timed out, or the socket is readable and
\* read returns a packet, 0, or -1 with EAGAIN, EINTR or another errno
BleInputs ==
    {[poll |-> -1, len |-> 0, errno |-> "EINTR", buf |-> <<>>],
     [poll |-> -1, len |-> 0, errno |-> "EBADF", buf |-> <<>>],
     [poll |-> 0, len |-> 0, errno |-> "none", buf |-> <<>>],
     [poll |-> 1, len |-> 0, errno |-> "none", buf |-> <<>>],
     [poll |-> 1, len |-> -1, errno |-> "EAGAIN", buf |-> <<>>],
     [poll |-> 1, len |-> -1, errno |-> "EINTR", buf |-> <<>>],
     [poll |-> 1, len |-> -1, errno |-> "EIO", buf |-> <<>>]}
    \cup {[poll |-> 1, len |-> Len(p), errno |-> "none", buf |-> p] : p \in BlePackets}

\* process_event(buf, len, &conn_handle, &connected, &done): the values of
\* conn_handle, connected and done after the call
BleProcessEvent(b, buf) ==
    LET event == buf[2]
        data == [i \in 0..(Len(buf) - 4) |-> buf[i + 4]]
    IN  CASE event = HCI_EV_CMD_STATUS ->
                 [b EXCEPT !.done =
                     IF data[0] # 0
                        /\ BitOr(data[2], Shl8(data[3])) = HCI_OP_LE_CREATE_CONN
                     THEN 1 ELSE @]
          [] event = HCI_EV_DISCONN_COMPLETE ->
                 [b EXCEPT !.connected = 0, !.done = 1]
          [] event = HCI_EV_LE_META /\ data[0] = HCI_EV_LE_CONN_COMPLETE ->
                 IF data[1] = 0
                 THEN [b EXCEPT !.conn_handle = BitOr(data[2], Shl8(data[3])),
                                !.connected = 1,
                                !.established = TRUE]
                 ELSE [b EXCEPT !.done = 1]
          [] OTHER -> b

\* if (len > 0 && buf[0] == HCI_EVENT_PKT) process_event(...)
BleAfterRead(b, in) ==
    IF in.len > 0 /\ in.buf[1] = HCI_EVENT_PKT THEN BleProcessEvent(b, in.buf) ELSE b

\* if (timeout_counter <= 0) { send_cmd(fd, HCI_OP_LE_CREATE_CONN_CANCEL,
\* NULL, 0); done = 1; }
CancelIfExpired(b) ==
    IF b.timeout_counter <= 0
    THEN [b EXCEPT !.sent = Append(@, Command(HCI_OP_LE_CREATE_CONN_CANCEL, <<>>)),
                   !.done = 1]
    ELSE b

\* ret == 0: if (!connected) { timeout_counter -= 1000; ... } continue;
BleOnTimeout(b) ==
    IF b.connected = 0
    THEN CancelIfExpired([b EXCEPT !.timeout_counter = @ - BlePollTimeout])
    ELSE b

\* sig_handler: keep_running = 0
BleSignal ==
    /\ ble.pc \in {"wait", "check", "disc_wait", "close"}
    /\ ble.keep_running = 1
    /\ ble' = [ble EXCEPT !.keep_running = 0]
    /\ UNCHANGED <<mainVars, pty, bt>>

\* send_cmd(fd, HCI_OP_LE_SET_SCAN_ENABLE, scan_disable, 2); usleep;
\* if (send_cmd(fd, HCI_OP_LE_CREATE_CONN, conn_params, 25) < 0)
\* { perror; close(fd); return 1; }
BleCreateConn ==
    /\ ble.pc = "start"
    /\ \E ok \in BOOLEAN :
         ble' = [ble EXCEPT
                    !.pc = IF ok THEN "wait" ELSE "exit",
                    !.sent = IF ok
                             THEN <<Command(HCI_OP_LE_SET_SCAN_ENABLE, <<0, 0>>),
                                    Command(HCI_OP_LE_CREATE_CONN, <<>>)>>
                             ELSE <<Command(HCI_OP_LE_SET_SCAN_ENABLE, <<0, 0>>)>>]
    /\ UNCHANGED <<mainVars, pty, bt>>

\* while (!done && keep_running) { poll; ...; read; ...; process_event; }
BleWait ==
    /\ ble.pc = "wait"
    /\ ble.done = 0 /\ ble.keep_running # 0
    /\ \E in \in BleInputs :
         LET b == [ble EXCEPT !.got = in]
         IN  ble' = IF in.poll < 0
                    THEN [b EXCEPT !.pc = IF in.errno = "EINTR" THEN "wait" ELSE "check"]
                    ELSE IF in.poll = 0
                    THEN BleOnTimeout(b)
                    ELSE IF in.len < 0
                    THEN [b EXCEPT !.pc = IF in.errno \in {"EAGAIN", "EINTR"}
                                          THEN "wait" ELSE "check"]
                    ELSE BleAfterRead(b, in)
    /\ UNCHANGED <<mainVars, pty, bt>>

\* while (!done && keep_running) found false
BleWaitOver ==
    /\ ble.pc = "wait"
    /\ ~(ble.done = 0 /\ ble.keep_running # 0)
    /\ ble' = [ble EXCEPT !.pc = "check"]
    /\ UNCHANGED <<mainVars, pty, bt>>

\* if (connected && conn_handle >= 0) { send_cmd(fd, HCI_OP_DISCONNECT,
\* disc_params, 3); timeout_counter = 5000; ... }
BleDisconnect ==
    /\ ble.pc = "check"
    /\ ble' = IF ble.connected # 0 /\ ble.conn_handle >= 0
              THEN [ble EXCEPT !.pc = "disc_wait",
                               !.timeout_counter = BleDiscTimeout,
                               !.sent = Append(@, Command(HCI_OP_DISCONNECT,
                                                   <<ble.conn_handle % 256,
                                                     ble.conn_handle \div 256, 19>>))]
              ELSE [ble EXCEPT !.pc = "close"]
    /\ UNCHANGED <<mainVars, pty, bt>>

\* while (connected && timeout_counter > 0) { ret = poll(&pfd, 1, 100);
\* if (ret > 0) { read; process_event; } timeout_counter -= 100; }
BleDiscWait ==
    /\ ble.pc = "disc_wait"
    /\ ble.connected # 0 /\ ble.timeout_counter > 0
    /\ \E in \in BleInputs :
         ble' = [(IF in.poll > 0 THEN BleAfterRead(ble, in) ELSE ble) EXCEPT
                    !.got = in,
                    !.timeout_counter = @ - BleDiscPollTimeout]
    /\ UNCHANGED <<mainVars, pty, bt>>

\* while (connected && timeout_counter > 0) found false
BleDiscWaitOver ==
    /\ ble.pc = "disc_wait"
    /\ ~(ble.connected # 0 /\ ble.timeout_counter > 0)
    /\ ble' = [ble EXCEPT !.pc = "close"]
    /\ UNCHANGED <<mainVars, pty, bt>>

\* close(fd); return 0;
BleClose ==
    /\ ble.pc = "close"
    /\ ble' = [ble EXCEPT !.pc = "exit"]
    /\ UNCHANGED <<mainVars, pty, bt>>

\* the steps of main: every step but the delivery of a signal
BleMainStep ==
    \/ BleCreateConn
    \/ BleWait
    \/ BleWaitOver
    \/ BleDisconnect
    \/ BleDiscWait
    \/ BleDiscWaitOver
    \/ BleClose

NextBle ==
    \/ BleSignal
    \/ BleCreateConn
    \/ BleWait
    \/ BleWaitOver
    \/ BleDisconnect
    \/ BleDiscWait
    \/ BleDiscWaitOver
    \/ BleClose

\* main runs on: a step of main that stays possible is eventually taken
SpecBle == Init /\ [][NextBle]_vars /\ WF_vars(BleMainStep)

---------------------------------------------------------------------------
(* Vocabulary of the properties.                                           *)

KnownTags == {HCI_COMMAND_PKT, HCI_ACLDATA_PKT, HCI_SCODATA_PKT, HCI_EVENT_PKT,
              HCI_VHCI_PKT}

LengthTags == {HCI_COMMAND_PKT, HCI_ACLDATA_PKT, HCI_SCODATA_PKT, HCI_EVENT_PKT}

\* the H4 header sizes and total lengths, from the packet formats
MinHeader(tag) ==
    CASE tag = HCI_COMMAND_PKT -> 4
      [] tag = HCI_ACLDATA_PKT -> 5
      [] tag = HCI_SCODATA_PKT -> 4
      [] tag = HCI_EVENT_PKT -> 3
      [] tag = HCI_VHCI_PKT -> 2

H4Len(f) ==
    CASE f[1] = HCI_COMMAND_PKT -> 4 + f[4]
      [] f[1] = HCI_ACLDATA_PKT -> 5 + f[4] + 256 * f[5]
      [] f[1] = HCI_SCODATA_PKT -> 4 + f[4]
      [] f[1] = HCI_EVENT_PKT -> 3 + f[3]

\* a well-formed Command, ACL-Data, SCO-Data or Event frame
LengthFrame(f) ==
    /\ f # <<>>
    /\ f[1] \in LengthTags
    /\ Len(f) >= MinHeader(f[1])
    /\ Len(f) = H4Len(f)

\* a well-formed Vendor/Internal frame: 0xff, an opcode, opaque data
VendorFrame(f) == Len(f) >= 2 /\ f[1] = HCI_VHCI_PKT

\* the accumulator begins with a byte that is no known type
InvalidFront(buf) == buf # <<>> /\ buf[1] \notin KnownTags

\* the accumulator begins with a known type and is shorter than its header
ShortHeader(buf) == buf # <<>> /\ buf[1] \in KnownTags /\ Len(buf) < MinHeader(buf[1])

\* stream offsets [SentStart, SentEnd) of the i-th frame a peer queued
SentStart(sent, i) == Len(Flatten(SubSeq(sent, 1, i - 1)))

SentEnd(sent, i) == SentStart(sent, i) + Len(sent[i])

\* the frames of a history, as (type and bytes)
Frames(ext) == [i \in 1..Len(ext) |-> [data |-> ext[i].data, internal |-> ext[i].internal]]

\* the frames extracted when the whole stream arrives in a single read
SingleReadVhci(stream) == Frames(ProcessVhci(AppendRead(<<>>, stream), 0, 0, 1, NoFault).ext)

SingleReadStpbt(stream) == Frames(ProcessStpbt(AppendRead(<<>>, stream), 0, 0, 1, NoFault).ext)

\* some write() call of the log wrote exactly frame f from stream offset off
WrittenAt(wr, off, f) ==
    Cardinality({k \in 1..Len(wr) : wr[k].off = off /\ wr[k].data = f}) = 1
    /\ Cardinality({k \in 1..Len(wr) : wr[k].off = off}) = 1

\* the extraction has reached stream offset off at the accumulator front
FrontReached(ext, off) ==
    off = 0 \/ \E j \in 1..Len(ext) : ext[j].off + Len(ext[j].data) = off

\* the bytes the step reads from an endpoint
NewBytes(in, inNext) == SubSeq(inNext, Len(in) + 1, Len(inNext))

---------------------------------------------------------------------------
(* C1 *)

\* C1 as stated: whenever all that was read from an endpoint is a
\* concatenation of well-formed frames of the five types (Vendor/Internal
\* included), the frames extracted over the reads that delivered it are the
\* frames extracted when it arrives in a single read.
C1_ChunkIndependenceAllTypes ==
    /\ (vhci_rx = <<>> /\ \A i \in 1..Len(vhci_sent) :
            LengthFrame(vhci_sent[i]) \/ VendorFrame(vhci_sent[i]))
       => Frames(vhci_ext) = SingleReadVhci(vhci_in)
    /\ (stpbt_rx = <<>> /\ \A i \in 1..Len(stpbt_sent) :
            LengthFrame(stpbt_sent[i]) \/ VendorFrame(stpbt_sent[i]))
       => Frames(stpbt_ext) = SingleReadStpbt(stpbt_in)

\* C1 amended: whenever all that was read from an endpoint is a concatenation
\* of well-formed Command, ACL-Data, SCO-Data and Event frames (no
\* Vendor/Internal frame), the frames extracted over the reads that delivered
\* it, however the reads cut it, are those frames, and are the frames
\* extracted when it arrives in a single read.
C1_ChunkIndependence ==
    /\ (vhci_rx = <<>> /\ \A i \in 1..Len(vhci_sent) : LengthFrame(vhci_sent[i]))
       => /\ Frames(vhci_ext) = SingleReadVhci(vhci_in)
          /\ [i \in 1..Len(vhci_ext) |-> vhci_ext[i].data] = vhci_sent
    /\ (stpbt_rx = <<>> /\ \A i \in 1..Len(stpbt_sent) : LengthFrame(stpbt_sent[i]))
       => /\ Frames(stpbt_ext) = SingleReadStpbt(stpbt_in)
          /\ [i \in 1..Len(stpbt_ext) |-> stpbt_ext[i].data] = stpbt_sent

\* two length-prefixed frames, all read, the reads cutting a frame in two
C1_Witness ==
    /\ vhci_rx = <<>>
    /\ Len(vhci_sent) >= 2
    /\ \A i \in 1..Len(vhci_sent) : LengthFrame(vhci_sent[i])
    /\ Len(vhci_ext) = Len(vhci_sent)
    /\ \E j \in 1..Len(vhci_ext) : vhci_ext[j].carried
    /\ Frames(vhci_ext) = SingleReadVhci(vhci_in)

---------------------------------------------------------------------------
(* C2 *)

\* C2 as stated: no byte of a Vendor/Internal frame the host stack queued on
\* the virtual-HCI endpoint is ever part of a write to the hardware endpoint,
\* however the reads split the frame.
C2_NoVendorByteWritten ==
    \A i \in 1..Len(vhci_sent) :
        VendorFrame(vhci_sent[i]) =>
            \A k \in 1..Len(stpbt_wr) :
                \/ stpbt_wr[k].off + Len(stpbt_wr[k].data) <= SentStart(vhci_sent, i)
                \/ SentEnd(vhci_sent, i) <= stpbt_wr[k].off

\* C2 amended: no frame the virtual-HCI side extracts as Vendor/Internal
\* (accumulator beginning with 0xff) is ever written to the hardware endpoint:
\* no write begins with 0xff, no write starts where such a frame was
\* extracted, and a queued vendor frame that was extracted in one piece has no
\* byte written.  (The bytes of a vendor frame that arrive in a later read are
\* parsed as new frames.)
C2_DropPolicy ==
    /\ \A k \in 1..Len(stpbt_wr) : stpbt_wr[k].data[1] # HCI_VHCI_PKT
    /\ \A j \in 1..Len(vhci_ext) :
          (vhci_ext[j].data[1] = HCI_VHCI_PKT) =>
              /\ vhci_ext[j].internal
              /\ \A k \in 1..Len(stpbt_wr) :
                    \/ stpbt_wr[k].off + Len(stpbt_wr[k].data) <= vhci_ext[j].off
                    \/ vhci_ext[j].off + Len(vhci_ext[j].data) <= stpbt_wr[k].off

\* a vendor frame was extracted and dropped, and another frame was written
C2_Witness ==
    /\ \E j \in 1..Len(vhci_ext) : vhci_ext[j].internal /\ Len(vhci_ext[j].data) > 2
    /\ stpbt_wr # <<>>

---------------------------------------------------------------------------
(* C3 *)

\* C3 as stated: every Command, ACL-Data, SCO-Data or Event frame the host
\* stack queued, once all its bytes are read, has been written to the
\* hardware endpoint with exactly its bytes, whatever frames precede it
\* (the stream holding frames of the five known types only).
C3_EveryFrameWritten ==
    \A i \in 1..Len(vhci_sent) :
        ( /\ LengthFrame(vhci_sent[i])
          /\ \A j \in 1..(i - 1) : LengthFrame(vhci_sent[j]) \/ VendorFrame(vhci_sent[j])
          /\ SentEnd(vhci_sent, i) <= Len(vhci_in) )
        => WrittenAt(stpbt_wr, SentStart(vhci_sent, i), vhci_sent[i])

\* C3 amended: every Command, ACL-Data, SCO-Data or Event frame the host stack
\* queued, once all its bytes are read, has been passed to exactly one write
\* on the hardware endpoint with exactly its bytes, provided the extraction
\* reached its first byte at the front of the accumulator; that is so whenever
\* only Command, ACL-Data, SCO-Data and Event frames precede it.  (A frame
\* buffered behind a Vendor/Internal frame is consumed with it.)
C3_ForwardExact ==
    \A i \in 1..Len(vhci_sent) :
        (LengthFrame(vhci_sent[i]) /\ SentEnd(vhci_sent, i) <= Len(vhci_in)) =>
            /\ FrontReached(vhci_ext, SentStart(vhci_sent, i))
                 => WrittenAt(stpbt_wr, SentStart(vhci_sent, i), vhci_sent[i])
            /\ (\A j \in 1..(i - 1) : LengthFrame(vhci_sent[j]))
                 => FrontReached(vhci_ext, SentStart(vhci_sent, i))

\* a second frame written by a later pass of the loop over the same read
C3_Witness ==
    \E i \in 2..Len(vhci_sent) :
        /\ LengthFrame(vhci_sent[i])
        /\ WrittenAt(stpbt_wr, SentStart(vhci_sent, i), vhci_sent[i])
        /\ \E j \in 1..Len(vhci_ext) :
              /\ vhci_ext[j].off = SentStart(vhci_sent, i)
              /\ vhci_ext[j].pass > 1

---------------------------------------------------------------------------
(* C4 *)

\* C4: every frame extracted from the hardware side, Vendor/Internal
\* included, is passed to a write on the virtual-HCI endpoint, unmodified:
\* the k-th write carries the k-th extracted frame, which is the bytes read
\* at its offset, whatever its type.
C4_ForwardAll ==
    /\ Len(vhci_wr) = Len(stpbt_ext)
    /\ \A k \in 1..Len(stpbt_ext) :
          /\ vhci_wr[k].data = stpbt_ext[k].data
          /\ vhci_wr[k].off = stpbt_ext[k].off
          /\ vhci_wr[k].data =
                SubSeq(stpbt_in, vhci_wr[k].off + 1, vhci_wr[k].off + Len(vhci_wr[k].data))

\* a Vendor/Internal frame from the hardware side was written
C4_Witness ==
    \E k \in 1..Len(stpbt_ext) :
        /\ stpbt_ext[k].internal
        /\ k <= Len(vhci_wr)
        /\ vhci_wr[k].data = stpbt_ext[k].data
        /\ vhci_wr[k].data[1] = HCI_VHCI_PKT

---------------------------------------------------------------------------
(* C5 *)

\* the writes of a log are in the order of the source stream: each carries
\* the bytes read at its offset, and starts where or after the one before ends
InStreamOrder(wr, in) ==
    /\ \A k \in 1..Len(wr) :
          wr[k].data = SubSeq(in, wr[k].off + 1, wr[k].off + Len(wr[k].data))
    /\ \A j, k \in 1..Len(wr) :
          j < k => wr[j].off + Len(wr[j].data) <= wr[k].off

\* C5: within each direction the frames are written in the order in which
\* they lie in the source byte stream, none past another.
C5_PerDirectionOrder ==
    /\ InStreamOrder(stpbt_wr, vhci_in)
    /\ InStreamOrder(vhci_wr, stpbt_in)

\* two frames of one direction written, the second by the next loop pass
C5_Witness ==
    /\ Len(vhci_wr) >= 2
    /\ vhci_wr[1].off < vhci_wr[2].off
    /\ \E j \in 1..Len(stpbt_ext) : stpbt_ext[j].pass = 2

---------------------------------------------------------------------------
(* C6 *)

\* C6: on a buffer holding at least the header of its type, get_packet_len
\* returns 4 + buf[3] for Command, 5 + buf[3] + 256 * buf[4] for ACL-Data,
\* 4 + buf[3] for SCO-Data and 3 + buf[2] for Event.
C6_TypeLength ==
    (rres # NoResult /\ rbuf # <<>> /\ rbuf[1] \in LengthTags
        /\ Len(rbuf) >= MinHeader(rbuf[1]))
    => rres.len = H4Len(rbuf)

\* an ACL-Data header with data_len 0xffff resolved to 65540
C6_Witness ==
    /\ rres # NoResult
    /\ Len(rbuf) >= 5
    /\ rbuf[1] = HCI_ACLDATA_PKT
    /\ rbuf[4] = 255
    /\ rbuf[5] = 255
    /\ rres.len = 65540

---------------------------------------------------------------------------
(* C7 *)

\* C7: whenever a read leaves an accumulator shorter than the header of the
\* type its first byte selects, get_packet_len returns 0 on it, nothing is
\* extracted or written, and the accumulator keeps every buffered byte; and
\* get_packet_len returns 0 on the empty buffer.
C7_NeedMoreBytes ==
    [][ /\ get_packet_len(<<>>).len = 0
        /\ LET buf == vhci_buf \o NewBytes(vhci_in, vhci_in') IN
           (vhci_in' # vhci_in /\ ShortHeader(buf)) =>
               /\ get_packet_len(buf).len = 0
               /\ vhci_buf' = buf
               /\ vhci_ext' = vhci_ext
               /\ stpbt_wr' = stpbt_wr
        /\ LET buf == stpbt_buf \o NewBytes(stpbt_in, stpbt_in') IN
           (stpbt_in' # stpbt_in /\ ShortHeader(buf)) =>
               /\ get_packet_len(buf).len = 0
               /\ stpbt_buf' = buf
               /\ stpbt_ext' = stpbt_ext
               /\ vhci_wr' = vhci_wr
      ]_vars

\* four bytes of an ACL-Data header retained, one short of its header
C7_Witness ==
    /\ Len(vhci_buf) = 4
    /\ vhci_buf[1] = HCI_ACLDATA_PKT
    /\ ShortHeader(vhci_buf)
    /\ vhci_in = vhci_buf
    /\ vhci_ext = <<>>
    /\ stpbt_wr = <<>>

---------------------------------------------------------------------------
(* C8 *)

\* C8: on a non-empty buffer get_packet_len returns -1 exactly when the first
\* byte is none of 0x01, 0x02, 0x03, 0x04, 0xff, whatever the length and the
\* other bytes.
C8_InvalidType ==
    (rres # NoResult /\ rbuf # <<>>) =>
        /\ (rbuf[1] \notin KnownTags) => rres.len = -1
        /\ (rbuf[1] \in KnownTags) => rres.len >= 0

\* an unknown type byte followed by a full header's worth of bytes
C8_Witness ==
    /\ rres # NoResult
    /\ Len(rbuf) >= 5
    /\ rbuf[1] \notin KnownTags
    /\ rres.len = -1

---------------------------------------------------------------------------
(* C9 *)

\* C9 as stated: when an accumulator begins with an unknown type byte the
\* loop has left Running: main is at cleanup or has returned.
C9_InvalidTypeFatal ==
    (InvalidFront(vhci_buf) \/ InvalidFront(stpbt_buf)) => pc \in {"cleanup", "done"}

---------------------------------------------------------------------------
(* C10 *)

\* C10: once an accumulator begins with an unknown type byte, it does so for
\* ever, and no frame is extracted from it or written for its direction,
\* whatever is read afterwards.
C10_InvalidTermination ==
    [][ /\ InvalidFront(vhci_buf) =>
               /\ InvalidFront(vhci_buf')
               /\ vhci_ext' = vhci_ext
               /\ stpbt_wr' = stpbt_wr
        /\ InvalidFront(stpbt_buf) =>
               /\ InvalidFront(stpbt_buf')
               /\ stpbt_ext' = stpbt_ext
               /\ vhci_wr' = vhci_wr
      ]_vars

\* an unknown type byte at the front with a whole Event frame buffered behind
\* it, unextracted
C10_Witness ==
    /\ InvalidFront(vhci_buf)
    /\ Len(vhci_buf) >= 4
    /\ LengthFrame(SubSeq(vhci_buf, 2, 4))
    /\ vhci_ext = <<>>
    /\ stpbt_wr = <<>>

---------------------------------------------------------------------------
(* C11 *)

\* the step is a run of the read handler of the virtual-HCI side
ReadVhciStep == pc = "read_vhci" /\ pc' # pc

\* the step is a run of the read handler of the hardware side
ReadStpbtStep == pc = "read_stpbt" /\ pc' # pc

\* C11 as stated: when a read handler runs on an accumulator that holds
\* BUF_SIZE bytes of an incomplete frame and one more byte has arrived, a
\* Buffer-Overflow is raised and the bridge leaves Running for ShuttingDown
\* (the read itself not failing); the byte is not silently left unread.
C11_OverflowReported ==
    [][ /\ (ReadVhciStep /\ Len(vhci_buf) = BUF_SIZE /\ vhci_rx # <<>>
                /\ syscall'.errno = "none")
               => pc' = "cleanup"
        /\ (ReadStpbtStep /\ Len(stpbt_buf) = BUF_SIZE /\ stpbt_rx # <<>>
                /\ syscall'.errno = "none")
               => pc' = "cleanup"
      ]_vars

---------------------------------------------------------------------------
(* C12 *)

\* the bytes of a history's frames, and their number
ConsumedBytes(ext) == Flatten([i \in 1..Len(ext) |-> ext[i].data])

\* buf is what was read and not yet consumed by an extracted frame
Pending(buf, in, ext) ==
    /\ ConsumedBytes(ext) = Take(in, Len(ConsumedBytes(ext)))
    /\ buf = Drop(in, Len(ConsumedBytes(ext)))

\* C12: in every reachable state and for both directions, the accumulator
\* holds at most BUF_SIZE bytes, and they are, in order and from index 0,
\* exactly the bytes read from the endpoint that no extracted frame has
\* consumed.
C12_AccumulatorInvariant ==
    /\ Len(vhci_buf) >= 0 /\ Len(vhci_buf) <= BUF_SIZE
    /\ Len(stpbt_buf) >= 0 /\ Len(stpbt_buf) <= BUF_SIZE
    /\ Pending(vhci_buf, vhci_in, vhci_ext)
    /\ Pending(stpbt_buf, stpbt_in, stpbt_ext)

\* one accumulator at capacity with a byte still queued behind it, the other
\* holding the beginning of a frame behind an extracted one
C12_Witness ==
    /\ Len(vhci_buf) = BUF_SIZE
    /\ vhci_rx # <<>>
    /\ stpbt_ext # <<>>
    /\ stpbt_buf # <<>>
    /\ stpbt_buf # Take(stpbt_in, Len(stpbt_buf))

---------------------------------------------------------------------------
(* C13 *)

\* the k-th write() of a log wrote fewer bytes than the frame, or failed
ShortWrite(wr, k) == wr[k].n # Len(wr[k].data)

\* the loop has been left: main is at cleanup or has returned
ShuttingDown == pc \in {"cleanup", "done"}

\* C13 as stated: once a write of an extracted frame has come back short or
\* failed, the bridge is ShuttingDown, and no further frame of that direction
\* has been written after it.
C13_ShortWriteFatal ==
    /\ \A k \in 1..Len(stpbt_wr) :
          ShortWrite(stpbt_wr, k) => (ShuttingDown /\ k = Len(stpbt_wr))
    /\ \A k \in 1..Len(vhci_wr) :
          ShortWrite(vhci_wr, k) => (ShuttingDown /\ k = Len(vhci_wr))

---------------------------------------------------------------------------
(* C14 *)

\* C14 as stated: once a read has failed with an errno other than EAGAIN and
\* EINTR, the loop has been left: no other wait or read follows it.
C14_FatalRead ==
    (syscall.call = "read" /\ syscall.n < 0 /\ syscall.errno \notin {"EAGAIN", "EINTR"})
    => ShuttingDown

---------------------------------------------------------------------------
(* C15 *)

\* the read of the step delivered no byte: it returned 0, or -1 with EAGAIN
EmptyFeed(r) == r.call = "read" /\ (r.n = 0 \/ (r.n < 0 /\ r.errno = "EAGAIN"))

\* C15: a run of a read handler whose read returns 0 bytes or fails with
\* EAGAIN leaves both accumulators as they were, extracts and writes nothing
\* on either endpoint, leaves ret and running alone, and main stays in the
\* loop.
C15_EmptyFeed ==
    [][ ((ReadVhciStep \/ ReadStpbtStep) /\ EmptyFeed(syscall')) =>
            /\ vhci_buf' = vhci_buf
            /\ stpbt_buf' = stpbt_buf
            /\ vhci_ext' = vhci_ext
            /\ stpbt_ext' = stpbt_ext
            /\ vhci_wr' = vhci_wr
            /\ stpbt_wr' = stpbt_wr
            /\ vhci_rx' = vhci_rx
            /\ stpbt_rx' = stpbt_rx
            /\ ret' = ret
            /\ running' = running
            /\ pc' \in {"read_stpbt", "loop"}
      ]_vars

\* a read on the virtual-HCI side has just failed with EAGAIN while the
\* accumulator held the beginning of a frame, and main is back in the loop
C15_Witness ==
    /\ syscall = SysResult("read", -1, "EAGAIN")
    /\ pc = "loop"
    /\ running = 1
    /\ vhci_rx = <<>>
    /\ ShortHeader(vhci_buf)
    /\ stpbt_in = <<>>

---------------------------------------------------------------------------
(* C16 *)

\* the step is the loop test and the select() of one iteration
SelectStep == pc = "loop" /\ syscall'.call = "select"

\* C16: a select() that fails with EINTR leaves main in the loop with
\* running, ret, the accumulators, the endpoints' queues and the write logs
\* as they were and no descriptor to handle; a select() that fails with any
\* other errno takes main out of the loop.
C16_WaitErrors ==
    [][ SelectStep =>
            /\ (syscall'.n < 0 /\ syscall'.errno = "EINTR") =>
                    /\ pc' = "loop"
                    /\ rfds' = {}
                    /\ running' = running
                    /\ ret' = ret
                    /\ UNCHANGED dataVars
            /\ (syscall'.n < 0 /\ syscall'.errno # "EINTR") => pc' = "cleanup"
      ]_vars

\* select() has just failed with EINTR while both endpoints had bytes queued
\* and an accumulator held the beginning of a frame; main is in the loop
C16_Witness ==
    /\ syscall = SysResult("select", -1, "EINTR")
    /\ pc = "loop"
    /\ running = 1
    /\ vhci_rx # <<>>
    /\ stpbt_rx # <<>>
    /\ vhci_buf # <<>>

---------------------------------------------------------------------------
(* C17 *)

\* every descriptor that was opened has been closed
AllClosed ==
    \A fd \in {vhci_fd, stpbt_fd} : fd >= 0 => \E i \in 1..Len(closed) : closed[i] = fd

\* no complete frame is left at the front of the accumulator
NothingToExtract(buf) ==
    LET r == get_packet_len(buf) IN r.len <= 0 \/ r.len > Len(buf)

---------------------------------------------------------------------------
(* C18 *)

\* both devices were opened
BothOpened == vhci_fd >= 0 /\ stpbt_fd >= 0

\* C18 as stated: main returns 0 only when the loop ended because running
\* was found 0, with both endpoints closed; it returns non-zero when an
\* endpoint failed to open, and ret is non-zero once select() has failed with
\* an errno other than EINTR.
C18_ExitStatus ==
    /\ (pc = "done" /\ ret = 0) => (running = 0 /\ BothOpened /\ AllClosed)
    /\ (pc = "done" /\ ~BothOpened) => ret # 0
    /\ (syscall.call = "select" /\ WaitFailed(syscall)) => ret # 0

---------------------------------------------------------------------------
(* C19 *)

\* an open() has failed
OpenFailed == pc \notin {"open_vhci", "open_stpbt"} /\ ~BothOpened

\* set_nonblocking has just failed
NonblockFailed == syscall.call = "fcntl" /\ syscall.n < 0

\* nothing was read from or written to either endpoint, and no descriptor was
\* reported ready
NoIO ==
    /\ vhci_in = <<>>
    /\ stpbt_in = <<>>
    /\ vhci_wr = <<>>
    /\ stpbt_wr = <<>>
    /\ rfds = {}

\* C19: when opening either device or switching to non-blocking mode has
\* failed, main is at cleanup or has returned, ret is non-zero, and nothing
\* was read or written; from cleanup on, main calls neither select() nor
\* read(), and ret and the endpoints are left as they are.
C19_OpenFailureFatal ==
    /\ []((OpenFailed \/ NonblockFailed) => (ShuttingDown /\ ret # 0 /\ NoIO))
    /\ [][ ShuttingDown =>
              /\ ShuttingDown'
              /\ ret' = ret
              /\ syscall'.call \notin {"select", "read"}
              /\ UNCHANGED dataVars
          ]_vars

\* main has returned 1 after /dev/stpbt failed to open, /dev/vhci closed
C19_Witness ==
    /\ pc = "done"
    /\ vhci_fd = VHCI_FD
    /\ stpbt_fd < 0
    /\ ret = 1
    /\ closed = <<VHCI_FD>>
    /\ NoIO

---------------------------------------------------------------------------
(* C20 *)

\* C20: /dev/stpbt is open only if /dev/vhci was opened before it, and is
\* never opened when the open of /dev/vhci failed; nothing is closed before
\* main has left cleanup, and then the opened descriptors were closed with
\* stpbt_fd first and vhci_fd last.
C20_OpenCloseOrder ==
    /\ stpbt_fd >= 0 => vhci_fd >= 0
    /\ pc = "open_vhci" => (vhci_fd < 0 /\ stpbt_fd < 0)
    /\ (vhci_fd < 0 /\ pc # "open_vhci") => (stpbt_fd < 0 /\ ShuttingDown)
    /\ pc # "done" => closed = <<>>
    /\ pc = "done" =>
          closed = (IF stpbt_fd >= 0 THEN <<STPBT_FD>> ELSE <<>>)
                   \o (IF vhci_fd >= 0 THEN <<VHCI_FD>> ELSE <<>>)

\* both devices opened, frames bridged, and the two descriptors closed
C20_Witness ==
    /\ pc = "done"
    /\ closed = <<STPBT_FD, VHCI_FD>>
    /\ vhci_wr # <<>>
    /\ stpbt_wr # <<>>

---------------------------------------------------------------------------
(* C21 *)

\* the number of close() calls made on descriptor fd
TimesClosed(fd) == Cardinality({i \in 1..Len(closed) : closed[i] = fd})

\* C21: when main has returned, by whatever path, each device that was
\* opened has been closed exactly once, a device that was not opened has not
\* been closed, and close() was called on nothing else (never on -1).
C21_NoHandleLeak ==
    pc = "done" =>
        /\ TimesClosed(VHCI_FD) = (IF vhci_fd >= 0 THEN 1 ELSE 0)
        /\ TimesClosed(STPBT_FD) = (IF stpbt_fd >= 0 THEN 1 ELSE 0)
        /\ \A i \in 1..Len(closed) : closed[i] \in {VHCI_FD, STPBT_FD}

\* main has returned after a failed select(), no signal having arrived, with
\* bytes still in an accumulator, and both descriptors were closed
C21_Witness ==
    /\ pc = "done"
    /\ running = 1
    /\ ret = 0
    /\ vhci_buf # <<>>
    /\ TimesClosed(VHCI_FD) = 1
    /\ TimesClosed(STPBT_FD) = 1

---------------------------------------------------------------------------
(* C22 *)

\* buf begins with the header of a Command, ACL-Data, SCO-Data or Event frame
\* whose total length is more than the bytes buffered
Incomplete(buf) ==
    /\ buf # <<>>
    /\ buf[1] \in LengthTags
    /\ Len(buf) >= MinHeader(buf[1])
    /\ H4Len(buf) > Len(buf)

\* all frames a peer queued are well-formed Command, ACL-Data, SCO-Data or
\* Event frames
AllLengthFrames(sent) == \A i \in 1..Len(sent) : LengthFrame(sent[i])

\* C22: a read that leaves at the front of an accumulator a frame whose
\* resolved total length exceeds the bytes buffered writes nothing, extracts
\* nothing and keeps every buffered byte; a frame from the hardware side,
\* once its last byte is read, has been passed to exactly one write on the
\* virtual-HCI endpoint with exactly its bytes; and when the stream read from
\* the hardware side ends on a frame boundary the accumulator is empty.
C22_NoPartialForwarding ==
    /\ [][ LET buf == stpbt_buf \o NewBytes(stpbt_in, stpbt_in') IN
               (stpbt_in' # stpbt_in /\ Incomplete(buf)) =>
                   /\ stpbt_buf' = buf
                   /\ stpbt_ext' = stpbt_ext
                   /\ vhci_wr' = vhci_wr
                   /\ stpbt_wr' = stpbt_wr
          ]_vars
    /\ [][ LET buf == vhci_buf \o NewBytes(vhci_in, vhci_in') IN
               (vhci_in' # vhci_in /\ Incomplete(buf)) =>
                   /\ vhci_buf' = buf
                   /\ vhci_ext' = vhci_ext
                   /\ vhci_wr' = vhci_wr
                   /\ stpbt_wr' = stpbt_wr
          ]_vars
    /\ [](AllLengthFrames(stpbt_sent) =>
             /\ \A i \in 1..Len(stpbt_sent) :
                   SentEnd(stpbt_sent, i) <= Len(stpbt_in)
                       => WrittenAt(vhci_wr, SentStart(stpbt_sent, i), stpbt_sent[i])
             /\ (\E i \in 0..Len(stpbt_sent) :
                     Len(stpbt_in) = Len(Flatten(SubSeq(stpbt_sent, 1, i))))
                       => stpbt_buf = <<>>)

\* the Event frame 04 0e 04 01 0c 20 00 arrived over more than one read and
\* was written once, whole, leaving the accumulator empty
C22_Witness ==
    /\ stpbt_sent = <<ExampleEvent>>
    /\ Len(stpbt_ext) = 1
    /\ stpbt_ext[1].carried
    /\ vhci_wr = <<WriteCall(ExampleEvent, 7, 0)>>
    /\ stpbt_buf = <<>>
    /\ stpbt_rx = <<>>

---------------------------------------------------------------------------
(* C23 *)

\* buf begins with the tag 0xff and holds at least its opcode byte
VendorFront(buf) == Len(buf) >= 2 /\ buf[1] = HCI_VHCI_PKT

\* C23: when a read leaves an accumulator that begins with 0xff and holds at
\* least 2 bytes, get_packet_len returns the whole buffered length with the
\* internal indication, and the handler extracts every buffered byte as one
\* frame and leaves the accumulator empty, whatever follows the tag (on the
\* virtual-HCI side nothing is written; on the hardware side that one frame
\* is written).
C23_VendorConsumesAll ==
    /\ [][ LET buf == vhci_buf \o NewBytes(vhci_in, vhci_in') IN
               (vhci_in' # vhci_in /\ VendorFront(buf)) =>
                   /\ get_packet_len(buf) = PktResult(Len(buf), TRUE)
                   /\ vhci_buf' = <<>>
                   /\ Len(vhci_ext') = Len(vhci_ext) + 1
                   /\ vhci_ext'[Len(vhci_ext')].data = buf
                   /\ vhci_ext'[Len(vhci_ext')].internal
                   /\ stpbt_wr' = stpbt_wr
          ]_vars
    /\ [][ LET buf == stpbt_buf \o NewBytes(stpbt_in, stpbt_in') IN
               (stpbt_in' # stpbt_in /\ VendorFront(buf)) =>
                   /\ get_packet_len(buf) = PktResult(Len(buf), TRUE)
                   /\ stpbt_buf' = <<>>
                   /\ Len(stpbt_ext') = Len(stpbt_ext) + 1
                   /\ stpbt_ext'[Len(stpbt_ext')].data = buf
                   /\ Len(vhci_wr') = Len(vhci_wr) + 1
                   /\ vhci_wr'[Len(vhci_wr')].data = buf
          ]_vars

\* one read delivered a vendor frame and a whole Event frame sent after it,
\* and the six bytes were extracted as one Vendor/Internal frame
C23_Witness ==
    /\ Len(vhci_sent) = 2
    /\ Len(vhci_ext) = 1
    /\ vhci_ext[1].internal
    /\ vhci_ext[1].data = vhci_sent[1] \o vhci_sent[2]
    /\ LengthFrame(vhci_sent[2])
    /\ vhci_buf = <<>>
    /\ stpbt_wr = <<>>

---------------------------------------------------------------------------
(* C24 *)

\* the host stack has queued one Vendor/Internal frame and nothing else
OneVendorSent == Len(vhci_sent) = 1 /\ VendorFrame(vhci_sent[1])

\* the step is the first read of that frame and delivers at least 2 bytes
FirstVendorRead ==
    /\ OneVendorSent
    /\ vhci_in = <<>>
    /\ Len(vhci_in') >= 2

\* one read has delivered the first bytes (at least 2) of that frame, which
\* were extracted, and the step is a read that delivers the rest of it
SecondVendorRead ==
    /\ OneVendorSent
    /\ Len(vhci_in) >= 2
    /\ Len(vhci_ext) = 1
    /\ ~vhci_ext[1].carried
    /\ vhci_ext[1].data = vhci_in
    /\ vhci_in' # vhci_in
    /\ vhci_in' = vhci_sent[1]

\* C24 as stated: when a Vendor/Internal frame arrives split across two
\* reads, the bytes of the first read (at least 2) are extracted as one
\* Vendor/Internal frame and the bytes of the second read are extracted as a
\* second frame.
C24_SplitIsTwoFrames ==
    [][ SecondVendorRead =>
            /\ Len(vhci_ext') = 2
            /\ vhci_ext'[1] = vhci_ext[1]
            /\ vhci_ext'[1].internal
            /\ vhci_ext'[2].data = NewBytes(vhci_in, vhci_in')
      ]_vars

\* C24 amended: when a Vendor/Internal frame arrives split across two reads,
\* the bytes of the first read (at least 2) are extracted as one
\* Vendor/Internal frame, leaving the accumulator empty, and the bytes of the
\* second read are never joined to it: they are parsed as a new stream from
\* the front of the accumulator, which extracts them as further frames only
\* where they form complete frames, and otherwise leaves them buffered (the
\* beginning of a frame, or an unknown type byte).
C24_SplitNotJoined ==
    /\ [][ FirstVendorRead =>
              /\ vhci_ext' = <<Extracted(vhci_in', TRUE, 0, 0, 1)>>
              /\ vhci_buf' = <<>>
              /\ stpbt_wr' = stpbt_wr
          ]_vars
    /\ [][ SecondVendorRead =>
              LET new == NewBytes(vhci_in, vhci_in')
                  later == Drop(vhci_ext', 1)
              IN  /\ Len(vhci_ext') >= 1
                  /\ vhci_ext'[1] = vhci_ext[1]
                  /\ vhci_ext'[1].internal
                  /\ \A j \in 1..Len(later) : later[j].off >= Len(vhci_in)
                  /\ Frames(later) = SingleReadVhci(new)
                  /\ vhci_buf' = Drop(new, Len(ConsumedBytes(later)))
          ]_vars

\* the vendor frame ff 01 04 0e 00 arrived as 2 bytes then 3: the first two
\* were extracted as a Vendor/Internal frame and the other three as an Event
\* frame
C24_Witness ==
    /\ OneVendorSent
    /\ Len(vhci_ext) = 2
    /\ vhci_ext[1].internal
    /\ ~vhci_ext[1].carried
    /\ ~vhci_ext[2].internal
    /\ ~vhci_ext[2].carried
    /\ vhci_ext[1].data \o vhci_ext[2].data = vhci_sent[1]

---------------------------------------------------------------------------
(* C25 *)

\* the program's positions
Positions ==
    {"open_vhci", "open_stpbt", "nonblock", "loop", "read_vhci", "read_stpbt",
     "cleanup", "done"}

\* Running: main is in the loop, at its readiness wait or in a handler
LoopRunning == pc \in {"loop", "read_vhci", "read_stpbt"}

\* the step ended with a readiness wait that failed for good
UnrecoverableWait ==
    /\ syscall'.call = "select"
    /\ syscall'.n < 0
    /\ syscall'.errno # "EINTR"

\* the step performed a system call on an endpoint
EndpointIO == syscall' # NoCall

\* C25: once entered, the loop is in exactly one of Running and ShuttingDown;
\* Running is left only for ShuttingDown, and only with the cancellation flag
\* observed (running = 0) or after a readiness wait failed with an error
\* other than an interruption; ShuttingDown is never left for Running, and
\* its steps perform no read, write or readiness wait: they leave both
\* streams alone and only close the handles and exit.
C25_LoopStateMachine ==
    /\ [](pc \in Positions)
    /\ []((LoopRunning \/ ShuttingDown) => ~(LoopRunning /\ ShuttingDown))
    /\ [][ LoopRunning /\ ~LoopRunning' =>
              /\ pc' = "cleanup"
              /\ \/ running = 0 /\ ~EndpointIO
                 \/ UnrecoverableWait
          ]_vars
    /\ [][ LoopRunning /\ running # 0 /\ ~UnrecoverableWait => LoopRunning' ]_vars
    /\ [][ ShuttingDown =>
              /\ ShuttingDown'
              /\ ~EndpointIO
              /\ UNCHANGED <<vhci_buf, stpbt_buf, vhci_rx, stpbt_rx,
                             vhci_wr, stpbt_wr, vhci_in, stpbt_in,
                             vhci_ext, stpbt_ext>>
              /\ \/ /\ pc = "cleanup"
                    /\ pc' = "done"
                    /\ Len(closed') >= Len(closed)
                    /\ Take(closed', Len(closed)) = closed
                 \/ pc' = pc /\ closed' = closed
          ]_vars

\* the loop was left on a failed readiness wait, with the cancellation flag
\* still set and bytes still waiting on the virtual-HCI endpoint
C25_Witness ==
    /\ pc = "cleanup"
    /\ syscall.call = "select"
    /\ syscall.n < 0
    /\ running = 1
    /\ vhci_rx # <<>>
    /\ vhci_ext # <<>>

---------------------------------------------------------------------------
(* C26 *)

\* the write calls the step added to a log
NewWrites(wr, wrNext) == SubSeq(wrNext, Len(wr) + 1, Len(wrNext))

\* every one of the write calls carries bytes of stream in, taken at the
\* offset the call is recorded with
CarriesBytesOf(calls, in) ==
    \A k \in 1..Len(calls) :
        /\ calls[k].data # <<>>
        /\ calls[k].off + Len(calls[k].data) <= Len(in)
        /\ calls[k].data = SubSeq(in, calls[k].off + 1, calls[k].off + Len(calls[k].data))

\* C26: a run of the virtual-HCI read handler leaves the hardware side's
\* accumulator, and what was read and extracted on that side, unchanged, and
\* writes nothing to the virtual-HCI endpoint: every write it makes is on the
\* hardware endpoint and carries bytes read from the virtual-HCI endpoint;
\* and the same with the two sides exchanged.
C26_DirectionIndependence ==
    /\ [][ ReadVhciStep =>
              /\ UNCHANGED <<stpbt_buf, stpbt_in, stpbt_ext, stpbt_rx>>
              /\ vhci_wr' = vhci_wr
              /\ Take(stpbt_wr', Len(stpbt_wr)) = stpbt_wr
              /\ CarriesBytesOf(NewWrites(stpbt_wr, stpbt_wr'), vhci_in')
          ]_vars
    /\ [][ ReadStpbtStep =>
              /\ UNCHANGED <<vhci_buf, vhci_in, vhci_ext, vhci_rx>>
              /\ stpbt_wr' = stpbt_wr
              /\ Take(vhci_wr', Len(vhci_wr)) = vhci_wr
              /\ CarriesBytesOf(NewWrites(vhci_wr, vhci_wr'), stpbt_in')
          ]_vars

\* the virtual-HCI handler has just read and forwarded a frame while the
\* hardware side's accumulator held the beginning of another
C26_Witness ==
    /\ pc = "read_stpbt"
    /\ syscall.call = "read"
    /\ syscall.n > 0
    /\ stpbt_buf # <<>>
    /\ stpbt_wr # <<>>
    /\ vhci_wr = <<>>
    /\ vhci_buf = <<>>

---------------------------------------------------------------------------
(* C27 *)

\* the longest header of the formats: the bytes a length can depend on
HeaderBytes == MinHeader(HCI_ACLDATA_PKT)

\* the buffers that have the first HeaderBytes bytes and the length of buf,
\* with other bytes behind them
SameHeader(buf) ==
    IF Len(buf) <= HeaderBytes THEN {buf}
    ELSE {Take(buf, HeaderBytes) \o [i \in 1..(Len(buf) - HeaderBytes) |-> b] :
              b \in {0, 1, 255}}

\* C27: a call of get_packet_len leaves every byte of the buffer and its
\* length as they were; its result (length and vendor-internal indication) is
\* the one a second call on the same buffer gives, and the one every buffer
\* of the same length with the same first bytes gives.
C27_ResolverPure ==
    /\ [][ rres' # rres => rbuf' = rbuf /\ rres' = get_packet_len(rbuf') ]_vars
    /\ [](rres # NoResult =>
             /\ rres = get_packet_len(rbuf)
             /\ \A other \in SameHeader(rbuf) : get_packet_len(other) = rres)

\* get_packet_len has resolved a complete SCO-Data frame whose bytes behind
\* the header differ from its length byte
C27_Witness ==
    /\ rres # NoResult
    /\ Len(rbuf) > HeaderBytes
    /\ rbuf[1] = HCI_SCODATA_PKT
    /\ rbuf[Len(rbuf)] # rbuf[4]
    /\ rres = PktResult(4 + rbuf[4], FALSE)
    /\ rres.len = Len(rbuf)

---------------------------------------------------------------------------
(* C28 *)

\* buf begins with a whole frame of a known type: a Command, ACL-Data,
\* SCO-Data or Event frame with all the bytes its header announces, or a
\* Vendor/Internal frame with its opcode byte
CompleteAtFront(buf) ==
    /\ buf # <<>>
    /\ buf[1] \in KnownTags
    /\ Len(buf) >= MinHeader(buf[1])
    /\ buf[1] \in LengthTags => H4Len(buf) <= Len(buf)

\* C28: no accumulator ever holds a complete frame at its front once a
\* handler has run (it is empty, or shorter than the header or the total
\* length of the frame at its front, or begins with an unknown tag); and a
\* handler run that reads bytes extracts in that same run every frame the
\* accumulator then holds whole, keeping only what lies behind them.
C28_ExtractionDrains ==
    /\ [](~CompleteAtFront(vhci_buf) /\ ~CompleteAtFront(stpbt_buf))
    /\ [][ ReadVhciStep /\ vhci_in' # vhci_in =>
              LET new == SubSeq(vhci_ext', Len(vhci_ext) + 1, Len(vhci_ext'))
              IN  /\ vhci_buf \o NewBytes(vhci_in, vhci_in') = ConsumedBytes(new) \o vhci_buf'
                  /\ ~CompleteAtFront(vhci_buf')
                  /\ \A j \in 1..Len(new) : CompleteAtFront(new[j].data)
          ]_vars
    /\ [][ ReadStpbtStep /\ stpbt_in' # stpbt_in =>
              LET new == SubSeq(stpbt_ext', Len(stpbt_ext) + 1, Len(stpbt_ext'))
              IN  /\ stpbt_buf \o NewBytes(stpbt_in, stpbt_in') = ConsumedBytes(new) \o stpbt_buf'
                  /\ ~CompleteAtFront(stpbt_buf')
                  /\ \A j \in 1..Len(new) : CompleteAtFront(new[j].data)
          ]_vars

\* of the three frames the host stack queued, the first two have been
\* extracted in one handler run and both forwarded, and the accumulator
\* keeps the first two bytes of the third
C28_Witness ==
    /\ vhci_sent = SeveralFrames
    /\ Len(vhci_ext) = 2
    /\ vhci_ext[1].pass = 1 /\ ~vhci_ext[1].carried
    /\ vhci_ext[2].pass = 2 /\ ~vhci_ext[2].carried
    /\ Len(stpbt_wr) = 2
    /\ vhci_buf = Take(SeveralFrames[3], 2)
    /\ syscall.call = "read"

---------------------------------------------------------------------------
(* C29 *)

\* the byte strings handed to the write calls of a log, in call order
WrittenData(wr) == [k \in 1..Len(wr) |-> wr[k].data]

\* the controller has queued complete Command, ACL-Data, SCO-Data and Event
\* frames only, and the bridge has read all of them
AllReadStpbt ==
    /\ stpbt_sent # <<>>
    /\ AllLengthFrames(stpbt_sent)
    /\ \A i \in 1..Len(stpbt_sent) : Len(stpbt_sent[i]) <= BUF_SIZE
    /\ stpbt_rx = <<>>
    /\ stpbt_in = Flatten(stpbt_sent)

\* C29: whenever the bytes read from the hardware endpoint are a
\* concatenation of Command, ACL-Data, SCO-Data and Event frames of at most
\* BUF_SIZE bytes each, however the reads divided them, the write calls made
\* on the virtual-HCI endpoint are one per frame, each with exactly the
\* frame's bytes, in the order of the stream, and the hardware-side
\* accumulator is empty.
C29_ChunkIndependence ==
    AllReadStpbt =>
        /\ WrittenData(vhci_wr) = stpbt_sent
        /\ Frames(stpbt_ext) = SingleReadStpbt(stpbt_in)
        /\ stpbt_buf = <<>>

\* two frames from the controller were read in pieces that cut through both
\* of them, and both were written whole
C29_Witness ==
    /\ AllReadStpbt
    /\ Len(stpbt_sent) = 2
    /\ stpbt_ext[1].carried
    /\ stpbt_ext[2].carried
    /\ WrittenData(vhci_wr) = stpbt_sent
    /\ \A k \in 1..Len(vhci_wr) : ~ShortWrite(vhci_wr, k)

---------------------------------------------------------------------------
(* C30 *)

\* the bytes the endpoint accepted over the write calls of a log
BytesWritten(wr) ==
    Flatten([k \in 1..Len(wr) |-> Take(wr[k].data, IF wr[k].n < 0 THEN 0 ELSE wr[k].n)])

\* every write call of the log wrote all it was given
AllComplete(wr) == \A k \in 1..Len(wr) : ~ShortWrite(wr, k)

\* C30: in every state in which every write on the virtual-HCI endpoint so
\* far was complete, the bytes written to it followed by the bytes in the
\* hardware-side accumulator are the bytes read so far from the hardware
\* endpoint; and always, complete writes or not, each extracted frame of
\* that direction has exactly one write call, for its bytes at its stream
\* offset, and the calls cover disjoint, increasing ranges of the stream.
C30_ByteConservation ==
    /\ AllComplete(vhci_wr) => BytesWritten(vhci_wr) \o stpbt_buf = stpbt_in
    /\ Len(vhci_wr) = Len(stpbt_ext)
    /\ \A k \in 1..Len(vhci_wr) :
          /\ vhci_wr[k].data = stpbt_ext[k].data
          /\ vhci_wr[k].off = stpbt_ext[k].off
          /\ vhci_wr[k].data = SubSeq(stpbt_in, vhci_wr[k].off + 1,
                                      vhci_wr[k].off + Len(vhci_wr[k].data))
    /\ \A j, k \in 1..Len(vhci_wr) :
          j < k => vhci_wr[j].off + Len(vhci_wr[j].data) <= vhci_wr[k].off

\* two frames from the controller were written whole and the accumulator
\* holds the beginning of a third
C30_Witness ==
    /\ Len(vhci_wr) = 2
    /\ AllComplete(vhci_wr)
    /\ stpbt_buf # <<>>
    /\ stpbt_ext[2].carried
    /\ BytesWritten(vhci_wr) \o stpbt_buf = stpbt_in

---------------------------------------------------------------------------
(* C31 *)

\* buf begins with the header of an ACL-Data frame whose total length is
\* more than the accumulator can hold
OversizeAtFront(buf) ==
    /\ Len(buf) >= MinHeader(HCI_ACLDATA_PKT)
    /\ buf[1] = HCI_ACLDATA_PKT
    /\ H4Len(buf) > BUF_SIZE

\* C31: once the header of an ACL-Data frame longer than BUF_SIZE is at the
\* front of an accumulator it stays there: the accumulator only grows, up to
\* BUF_SIZE bytes, and that direction extracts and forwards nothing more.  A
\* handler that runs on the accumulator holding BUF_SIZE bytes still calls
\* read (for 0 bytes): the call returns no byte, the accumulator and the
\* queue of the endpoint are left as they were, and main stays in the loop
\* with its exit status untouched.
C31_OversizeStalls ==
    /\ [][ OversizeAtFront(vhci_buf) =>
              /\ Len(vhci_buf') <= BUF_SIZE
              /\ Take(vhci_buf', Len(vhci_buf)) = vhci_buf
              /\ vhci_ext' = vhci_ext
              /\ stpbt_wr' = stpbt_wr
          ]_vars
    /\ [][ OversizeAtFront(stpbt_buf) =>
              /\ Len(stpbt_buf') <= BUF_SIZE
              /\ Take(stpbt_buf', Len(stpbt_buf)) = stpbt_buf
              /\ stpbt_ext' = stpbt_ext
              /\ vhci_wr' = vhci_wr
          ]_vars
    /\ [][ ReadVhciStep /\ Len(vhci_buf) = BUF_SIZE =>
              /\ syscall'.call = "read"
              /\ syscall'.n <= 0
              /\ UNCHANGED <<vhci_buf, vhci_in, vhci_rx, vhci_ext, stpbt_wr, ret>>
              /\ LoopRunning'
          ]_vars
    /\ [][ ReadStpbtStep /\ Len(stpbt_buf) = BUF_SIZE =>
              /\ syscall'.call = "read"
              /\ syscall'.n <= 0
              /\ UNCHANGED <<stpbt_buf, stpbt_in, stpbt_rx, stpbt_ext, vhci_wr, ret>>
              /\ LoopRunning'
          ]_vars

\* the handler of the virtual-HCI endpoint has just called read with the
\* accumulator full of the oversize frame: read returned 0 without an
\* error, a byte is still queued, and main goes on to the other handler
C31_Witness ==
    /\ pc = "read_stpbt"
    /\ running = 1
    /\ syscall = SysResult("read", 0, "none")
    /\ OversizeAtFront(vhci_buf)
    /\ Len(vhci_buf) = BUF_SIZE
    /\ vhci_rx # <<>>
    /\ stpbt_wr = <<>>

---------------------------------------------------------------------------
(* C32 *)

\* the frames the step added to a history
NewFrames(ext, extNext) == SubSeq(extNext, Len(ext) + 1, Len(extNext))

\* the passes of one run of an extraction loop, on total buffered bytes:
\* pass j extracts frame j, of at least 2 bytes and no more than the bytes
\* still buffered, so that the frames and what is left make up the total
TerminatingPasses(frames, total, left) ==
    /\ \A j \in 1..Len(frames) :
          /\ frames[j].pass = j
          /\ Len(frames[j].data) >= 2
          /\ Len(ConsumedBytes(Take(frames, j))) <= total
    /\ Len(ConsumedBytes(frames)) + Len(left) = total
    /\ 2 * Len(frames) <= total

\* C32: every run of a read handler extracts its frames in passes that each
\* remove at least 2 bytes and never more than is buffered, so it makes at
\* most (bytes buffered) / 2 extractions; and whenever main is in a handler
\* it comes back to the loop test.
C32_ExtractionTerminates ==
    /\ [][ ReadVhciStep =>
              TerminatingPasses(NewFrames(vhci_ext, vhci_ext'),
                                Len(vhci_buf) + Len(NewBytes(vhci_in, vhci_in')),
                                vhci_buf')
          ]_vars
    /\ [][ ReadStpbtStep =>
              TerminatingPasses(NewFrames(stpbt_ext, stpbt_ext'),
                                Len(stpbt_buf) + Len(NewBytes(stpbt_in, stpbt_in')),
                                stpbt_buf')
          ]_vars
    /\ (pc \in {"read_vhci", "read_stpbt"}) ~> (pc = "loop")

\* one run of the virtual-HCI handler has extracted two frames in two passes
\* from the bytes of one read, and main is back at the loop test
C32_Witness ==
    /\ pc = "loop"
    /\ Len(vhci_ext) = 2
    /\ \A j \in 1..2 : vhci_ext[j].pass = j /\ ~vhci_ext[j].carried
    /\ Len(vhci_in) = Len(ConsumedBytes(vhci_ext))
    /\ vhci_buf = <<>>

---------------------------------------------------------------------------
(* C33 *)

\* bridge_data is inside a call of safe_write
InSafeWrite == pty.pc \in {"stpbt_write", "pty_write"}

\* the step is a write() made by safe_write
SafeWriteCall == InSafeWrite /\ pty'.call.call = "write"

\* C33: safe_write returns either -1 or the count it was asked for, never
\* less; when it returns the count, the bytes it wrote are the count bytes
\* of the buffer, each once and in order, and until then what it has written
\* is the first total bytes.  After a write that fails with EINTR and after
\* a short write the call goes on from where it was; a write that fails
\* with any other errno (EAGAIN included) makes it return -1, and
\* bridge_data then leaves its loop.
C33_SafeWriteRetries ==
    /\ [](pty.ret # NoReturn =>
             /\ pty.ret \in {-1, pty.count}
             /\ pty.ret = pty.count =>
                    /\ pty.out = pty.buffer
                    /\ Len(pty.buffer) = pty.count
                    /\ pty.total = pty.count)
    /\ [](InSafeWrite =>
             /\ pty.ret = NoReturn
             /\ pty.total < pty.count
             /\ pty.out = Take(pty.buffer, pty.total)
             /\ Len(pty.out) = pty.total)
    /\ [][ SafeWriteCall =>
              LET c == pty'.call IN
              /\ (c.n < 0 /\ c.errno = "EINTR") =>
                     /\ pty'.pc = pty.pc
                     /\ pty'.ret = NoReturn
                     /\ pty'.total = pty.total
                     /\ pty'.wr = pty.wr
              /\ (c.n < 0 /\ c.errno # "EINTR") =>
                     /\ pty'.ret = -1
                     /\ pty'.pc = "return"
                     /\ pty'.wr = pty.wr
              /\ (c.n > 0 /\ Len(pty'.out) < pty.count) =>
                     /\ pty'.pc = pty.pc
                     /\ pty'.ret = NoReturn
                     /\ pty'.total = Len(pty'.out)
              /\ (c.n > 0 /\ Len(pty'.out) >= pty.count) =>
                     /\ pty'.ret = pty.count
                     /\ pty'.pc \notin {pty.pc, "return"}
          ]_vars

\* safe_write has written some of its bytes in a short write, its next write
\* was interrupted by a signal, and it is still in its loop
C33_Witness ==
    /\ InSafeWrite
    /\ pty.call = SysResult("write", -1, "EINTR")
    /\ pty.total > 0
    /\ pty.total < pty.count
    /\ pty.ret = NoReturn
    /\ pty.wr[pty.fd] # <<>>

---------------------------------------------------------------------------
(* C34 *)

IsPrefix(a, b) == Len(a) <= Len(b) /\ a = Take(b, Len(a))

\* no byte of sequence a occurs in sequence b
Disjoint(a, b) == \A i \in 1..Len(a) : \A j \in 1..Len(b) : a[i] # b[j]

\* C34: the bytes written to each side are always the first bytes read from
\* the other side, in order, and never bytes read from that same side;
\* outside the safe_write of a direction, and as long as bridge_data has not
\* returned, they are all the bytes read from the other side; and a read
\* from one side happens only when everything read from the other side has
\* been written.
C34_PtyRelaying ==
    /\ [](/\ IsPrefix(pty.wr.pty, pty.rd.stpbt)
          /\ IsPrefix(pty.wr.stpbt, pty.rd.pty)
          /\ Disjoint(pty.wr.pty, pty.rd.pty)
          /\ Disjoint(pty.wr.stpbt, pty.rd.stpbt))
    /\ [](pty.pc \notin {"stpbt_write", "return"} => pty.wr.pty = pty.rd.stpbt)
    /\ [](pty.pc \notin {"pty_write", "return"} => pty.wr.stpbt = pty.rd.pty)
    /\ [][ pty'.rd.pty # pty.rd.pty =>
              pty.wr.pty = pty.rd.stpbt /\ pty.wr.stpbt = pty.rd.pty ]_vars
    /\ [][ pty'.rd.stpbt # pty.rd.stpbt =>
              pty.wr.pty = pty.rd.stpbt /\ pty.wr.stpbt = pty.rd.pty ]_vars

\* both directions have relayed bytes, the PTY side in more than one chunk,
\* and the loop is running
C34_Witness ==
    /\ pty.pc = "loop"
    /\ pty.running = 1
    /\ Len(pty.rd.stpbt) >= 2
    /\ Len(pty.rd.pty) >= 2
    /\ pty.count < Len(pty.rd.pty)
    /\ pty.fd = "stpbt"
    /\ pty.wr.pty = pty.rd.stpbt
    /\ pty.wr.stpbt = pty.rd.pty

---------------------------------------------------------------------------
(* C35 *)

\* the connection handle a Disconnect command names in its parameters
DisconnectHandle(cmd) == cmd.params[1] + 256 * cmd.params[2]

\* C35 as stated: every Disconnect command bt_connect has sent names the
\* handle of a Connection Complete event that reported status 0; after
\* Connection Complete events with a non-zero status only, no Disconnect has
\* been sent and the wait for Disconnection Complete is not entered.
C35_DisconnectOnlyEstablished ==
    /\ \A k \in 1..Len(bt.sent) :
          bt.sent[k].opcode = HCI_OP_DISCONNECT =>
              \E c \in bt.cc : c.status = 0 /\ c.handle = DisconnectHandle(bt.sent[k])
    /\ bt.pc = "disc_wait" => \E c \in bt.cc : c.status = 0

---------------------------------------------------------------------------
(* C36: ble_connect gives up on a connection that is never established.    *)

\* the number of LE Create Connection Cancel commands ble_connect has sent
CancelCount ==
    Cardinality({k \in 1..Len(ble.sent) :
                    ble.sent[k].opcode = HCI_OP_LE_CREATE_CONN_CANCEL})

\* no successful LE Connection Complete has arrived and no signal has been
\* delivered
NeverEstablished == ~ble.established /\ ble.keep_running = 1

\* the wait loop has been entered and left
WaitLoopLeft == ble.pc \in {"check", "disc_wait", "close"}

\* the Disconnect command for the handle main has stored
DisconnectStored ==
    Command(HCI_OP_DISCONNECT, <<ble.conn_handle % 256, ble.conn_handle \div 256, 19>>)

\* C36 as stated: in every run in which no successful LE Connection
\* Complete arrives and no signal is delivered, whatever poll and read give,
\* the wait loop of ble_connect is eventually left with LE Create Connection
\* Cancel sent exactly once; and when the loop has been left while
\* connected, the next statement sends Disconnect for the stored handle, so
\* that the socket is never closed without it.
C36_GivesUpWithCancel ==
    /\ [](CancelCount <= 1)
    /\ [](WaitLoopLeft /\ NeverEstablished => CancelCount = 1)
    /\ (ble.pc = "wait") ~> (\/ ~NeverEstablished
                             \/ WaitLoopLeft /\ CancelCount = 1)
    /\ [][ble.pc = "check" /\ ble.connected # 0 /\ ble'.pc # "check"
            => /\ ble'.pc = "disc_wait"
               /\ ble'.sent = Append(ble.sent, DisconnectStored)]_vars

\* the liveness half of C36 alone: the wait loop is eventually left, or a
\* connection is established, or a signal is delivered
C36_WaitLoopEnds ==
    (ble.pc = "wait") ~> (~NeverEstablished \/ ble.pc # "wait")

=============================================================================
